---- MODULE Spec2Model ----
(***************************************************************************)
(* ClaudeMiner session observation engine.                                 *)
(*                                                                         *)
(* The Coordinator thread (coordinator/core.rs) consumes Log, Cpu and Hook *)
(* events one at a time, keeps a private session table and a pid index,    *)
(* and mirrors the table into a snapshot shared with the SessionCleaner    *)
(* (session/cleaner.rs), which removes sessions whose process is gone.     *)
(*                                                                         *)
(* Conventions:                                                            *)
(*   Option<T>      <<>> is None, <<v>> is Some(v)                         *)
(*   f32 percent    an integer number of tenths of a percent (0.5% = 5)    *)
(*   u64 seconds    a natural number; saturating_sub is SatSub             *)
(*   HashMap<K,V>   a function whose DOMAIN is the key set                 *)
(***************************************************************************)
EXTENDS Integers, Sequences, FiniteSets, TLC

(***************************************************************************)
(* Bounds of the model.                                                    *)
(***************************************************************************)
MaxQueue == 2
MaxSteps == 3

(***************************************************************************)
(* Input domains.                                                          *)
(***************************************************************************)
\* A UUID-shaped session id, and the id of a temporary session.  Every id
\* has at least the 8 characters the handlers slice off for their log lines.
U1 == "aaaaaaaa-0000-4000-8000-000000000001"
T1 == "pid-12345"
SessionIds == {U1, T1}
\* The ids the LogWatcher can send: extract_session_id keeps 36-character
\* file stems only.
LogSessionIds == {id \in SessionIds : Len(id) = 36}
\* The processes: the first exits and loses or regains its terminal while
\* it is observed, the second stays alive on its terminal.
Pids == {12345, 23456}
DynamicPids == {12345}
HookEvts == {"start", "working", "resting", "end", "other"}
CpuPercents == {5, 101}

NoneOpt == <<>>
Some(v) == <<v>>
IsSome(o) == Len(o) = 1
Unwrap(o) == o[1]

\* Option::or
OptOr(a, b) == IF IsSome(a) THEN a ELSE b

\* u64::saturating_sub
SatSub(a, b) == IF a >= b THEN a - b ELSE 0

\* str::starts_with
StartsWith(s, p) == Len(s) >= Len(p) /\ SubSeq(s, 1, Len(p)) = p

\* format!("pid-{}", pid)
TempId(pid) == "pid-" \o ToString(pid)

\* HashMap::insert
MapInsert(m, k, v) == [x \in DOMAIN m \cup {k} |-> IF x = k THEN v ELSE m[x]]

\* HashMap::remove
MapRemove(m, k) == [x \in DOMAIN m \ {k} |-> m[x]]

EmptyMap == [x \in {} |-> 0]

VARIABLES
    sessions,         \* Coordinator-local HashMap<String, SessionState>
    pid_to_session,   \* Coordinator-local HashMap<u32, String>
    shared_sessions,  \* Arc<Mutex<HashMap<String, SessionState>>>
    session_cache,    \* Arc<Mutex<HashMap<u32, String>>> of the finder
    cleanup_queue,    \* CleanupEvent channel, Coordinator -> SessionCleaner
    alive,            \* pids the OS process table currently holds
    notty,            \* pids whose ps line shows TTY ?/?? or STAT T
    now,              \* current_timestamp()
    emitted,          \* lifecycle events and notifications of the last step
    last,             \* the last operation, its inputs, and the sessions
                      \* a cleaner operation removed from the snapshot
    steps,            \* events handled so far by Coordinator and cleaner
    call              \* a single function applied to drawn arguments

vars == <<sessions, pid_to_session, shared_sessions, session_cache,
          cleanup_queue, alive, notty, now, emitted, last, steps, call>>

(***************************************************************************)
(* session/state.rs                                                        *)
(***************************************************************************)
new_legacy(pid, session_id, t) ==
    [pid |-> pid, session_id |-> session_id, session_type |-> "Legacy",
     last_log_event |-> NoneOpt, last_cpu_event |-> NoneOpt,
     current_status |-> "unknown", has_terminal |-> TRUE,
     last_update |-> t, last_active_timestamp |-> NoneOpt]

new_hook(session_id, t) ==
    [pid |-> 0, session_id |-> session_id, session_type |-> "Hook",
     last_log_event |-> NoneOpt, last_cpu_event |-> NoneOpt,
     current_status |-> "resting", has_terminal |-> TRUE,
     last_update |-> t, last_active_timestamp |-> NoneOpt]

UuidLen == 36

\* Variant of IsUpgradableId without the length test.
IsUpgradableId_AnyLength(id) ==
    /\ ~StartsWith(id, "pid-")
    /\ ~StartsWith(id, "$")

\* The test made on a Legacy session: 36 characters, not temporary, not the
\* unexpanded placeholder.
IsUpgradableId(id) ==
    /\ Len(id) = UuidLen
    /\ ~StartsWith(id, "pid-")
    /\ ~StartsWith(id, "$")

\* upgrade_to_hook: the pair <<returned flag, session afterwards>>
upgrade_to_hook(s) ==
    IF s.session_type = "Legacy"
    THEN IF IsUpgradableId(s.session_id)
         THEN <<TRUE, [s EXCEPT !.session_type = "Hook"]>>
         ELSE <<FALSE, s>>
    ELSE <<TRUE, s>>

(***************************************************************************)
(* OS probes.  A probe reads the process table as it is at that moment:   *)
(* a is the set of live pids, z the set of pids without a terminal.        *)
(***************************************************************************)
\* session/cleaner.rs is_process_alive
is_process_alive(a, pid) == pid # 0 /\ pid \in a

\* status/hybrid.rs is_zombie_by_tty: ps prints nothing for a pid that is
\* gone, and then the probe answers false.
is_zombie_by_tty(a, z, pid) == pid \in a /\ pid \in z

(***************************************************************************)
(* coordinator/core.rs: the decision function                              *)
(***************************************************************************)
CpuFreshSecs == 10
IdleCpuPercent == 5
IdleLogAgeSecs == 45
IdleSessionAgeSecs == 60
StaleMtimeSecs == 30
HighCpuPercent == 100
VeryFreshLogSecs == 5
ActiveCpuPercent == 10

\* The idle guard at the head of decide_status_legacy: a session that is
\* working, with a recent CPU sample at or below 0.5 %, and no activity for
\* long enough.
IdleGuard(s, t) ==
    /\ s.current_status = "working"
    /\ IsSome(s.last_cpu_event)
    /\ LET cpu == Unwrap(s.last_cpu_event)
           cpu_age == SatSub(t, cpu.timestamp)
       IN  /\ cpu_age < CpuFreshSecs
           /\ cpu.cpu_percent <= IdleCpuPercent
           /\ IF IsSome(s.last_log_event)
              THEN SatSub(t, Unwrap(s.last_log_event).file_mtime) > IdleLogAgeSecs
              ELSE SatSub(t, s.last_update) > IdleSessionAgeSecs

\* Variant of StreamStartedStatus whose very-fresh-log test is "at most"
\* instead of "less than".
StreamStartedStatus_Inclusive(s, t) ==
    LET mtime_age == SatSub(t, Unwrap(s.last_log_event).file_mtime)
        hasCpu == IsSome(s.last_cpu_event)
        cpu == Unwrap(s.last_cpu_event)
        cpu_age == SatSub(t, cpu.timestamp)
    IN  IF mtime_age >= StaleMtimeSecs THEN "resting"
        ELSE IF hasCpu /\ cpu_age < CpuFreshSecs /\ cpu.cpu_percent > HighCpuPercent
             THEN "working"
        ELSE IF hasCpu /\ cpu_age < CpuFreshSecs /\ cpu.cpu_percent <= HighCpuPercent
                /\ mtime_age < StaleMtimeSecs
             THEN "working"
        ELSE IF hasCpu /\ cpu_age < CpuFreshSecs /\ mtime_age >= StaleMtimeSecs
             THEN "resting"
        ELSE IF s.pid # 0 /\ mtime_age <= VeryFreshLogSecs THEN "working"
        ELSE "resting"

\* The branch of decide_status_legacy taken when the log sample says
\* ActivelyWorking ("Stream started" was found).
StreamStartedStatus(s, t) ==
    LET mtime_age == SatSub(t, Unwrap(s.last_log_event).file_mtime)
        hasCpu == IsSome(s.last_cpu_event)
        cpu == Unwrap(s.last_cpu_event)
        cpu_age == SatSub(t, cpu.timestamp)
    IN  IF mtime_age >= StaleMtimeSecs THEN "resting"
        ELSE IF hasCpu /\ cpu_age < CpuFreshSecs /\ cpu.cpu_percent > HighCpuPercent
             THEN "working"
        ELSE IF hasCpu /\ cpu_age < CpuFreshSecs /\ cpu.cpu_percent <= HighCpuPercent
                /\ mtime_age < StaleMtimeSecs
             THEN "working"
        ELSE IF hasCpu /\ cpu_age < CpuFreshSecs /\ mtime_age >= StaleMtimeSecs
             THEN "resting"
        ELSE IF s.pid # 0 /\ mtime_age < VeryFreshLogSecs THEN "working"
        ELSE "resting"

decide_status_legacy(s, t) ==
    IF ~s.has_terminal THEN "zombie"
    ELSE IF IdleGuard(s, t) THEN "resting"
    ELSE IF IsSome(s.last_log_event)
            /\ Unwrap(s.last_log_event).state = "ActivelyWorking"
         THEN StreamStartedStatus(s, t)
    ELSE IF /\ IsSome(s.last_cpu_event)
            /\ SatSub(t, Unwrap(s.last_cpu_event).timestamp) < CpuFreshSecs
            /\ Unwrap(s.last_cpu_event).cpu_percent > HighCpuPercent
         THEN "working"
    ELSE "resting"

\* Variant of decide_status_hook that applies the Legacy heuristics.
decide_status_hook_Heuristic(s) == decide_status_legacy(s, now)

\* core.rs decide_status_hook: the status the Hook events set.
decide_status_hook(s) == s.current_status

\* decide_status at time t, with the process table showing a and z when the
\* TTY of the session's pid is probed.
decide_status(s, t, a, z) ==
    IF ~s.has_terminal THEN "zombie"
    ELSE IF s.pid # 0 /\ is_zombie_by_tty(a, z, s.pid) THEN "zombie"
    ELSE LET status == IF s.session_type = "Legacy"
                       THEN decide_status_legacy(s, t)
                       ELSE decide_status_hook(s)
         IN  IF status = "unknown" THEN "resting" ELSE status

(***************************************************************************)
(* Lifecycle events and notifications (event/emitter.rs,                   *)
(* notification/sender.rs), each recorded with the session it carries.     *)
(***************************************************************************)
emit_session_created(s) ==
    [topic |-> "session-created", sid |-> s.session_id, status |-> s.current_status]

emit_session_status_changed(s) ==
    [topic |-> "session-status-changed", sid |-> s.session_id,
     status |-> s.current_status]

emit_session_terminated(s) ==
    [topic |-> "session-terminated", sid |-> s.session_id,
     status |-> s.current_status]

send_task_completion_notification(s) ==
    [topic |-> "task-completion", sid |-> s.session_id, status |-> s.current_status]

\* CleanupEvent::SessionBecameZombie(session_id)
SessionBecameZombie(sid) == [kind |-> "SessionBecameZombie", sid |-> sid]

\* What a handler leaves behind: the table, the index, the finder cache, the
\* events emitted and the cleanup events sent.
Outcome(sess, p2s, cache, emits, sends) ==
    [sessions |-> sess, pid_to_session |-> p2s, session_cache |-> cache,
     emitted |-> emits, sent |-> sends]

(***************************************************************************)
(* coordinator/core.rs handle_log_event                                    *)
(***************************************************************************)
\* The pids the scan for temporary sessions can come up with: the pid of
\* the first "pid-" session the HashMap iteration meets, if the target
\* session is not in the table.
FoundPidChoices(sess, session_id) ==
    LET cands == {sess[tid].pid : tid \in
                    {x \in DOMAIN sess : /\ StartsWith(x, "pid-")
                                         /\ sess[x].pid # 0
                                         /\ session_id \notin DOMAIN sess}}
    IN  IF cands = {} THEN {NoneOpt} ELSE {Some(p) : p \in cands}

\* The sample the Coordinator reads back from a stored LogEvent.
LogSample(ev) == [state |-> ev.state, file_mtime |-> ev.file_mtime]

\* The part of handle_log_event after both liveness checks have passed.
\* session is the located or created entry, a2/z2 the process table then.
ApplyLogEvent(ev, sess, p2s, cache, found_pid, is_new_session, session, t, a2, z2) ==
    LET session_id == ev.session_id
        merges == IsSome(found_pid) /\ session.pid = 0
        s1 == IF merges THEN [session EXCEPT !.pid = Unwrap(found_pid)] ELSE session
        p2s1 == IF merges THEN MapInsert(p2s, Unwrap(found_pid), session_id) ELSE p2s
        s2 == [s1 EXCEPT !.last_log_event = Some(LogSample(ev)), !.last_update = t]
        old_status == s2.current_status
        new_status == decide_status(s2, t, a2, z2)
        status_changed == new_status # old_status
        s3 == IF status_changed THEN [s2 EXCEPT !.current_status = new_status] ELSE s2
        sess1 == MapInsert(sess, session_id, s3)
        sess2 == IF merges THEN MapRemove(sess1, TempId(Unwrap(found_pid))) ELSE sess1
        created == IF is_new_session /\ s3.pid # 0
                   THEN <<emit_session_created(s3)>> ELSE <<>>
        changed == IF status_changed
                   THEN <<emit_session_status_changed(s3)>> ELSE <<>>
        notified == IF status_changed /\ old_status = "working" /\ new_status = "resting"
                    THEN <<send_task_completion_notification(s3)>> ELSE <<>>
    IN  Outcome(sess2, p2s1, cache, created \o changed \o notified, <<>>)

\* handle_log_event.  found_pid is the result of the temporary-session
\* scan; a1 is the process table at the first liveness probe, a2/z2 the
\* process table at the second probe and at the TTY probe of decide_status.
handle_log_event(ev, sess, p2s, cache, found_pid, t, a1, a2, z2) ==
    LET session_id == ev.session_id
        checked == OptOr(found_pid, ev.pid)
        is_new_session == session_id \notin DOMAIN sess
        session == IF is_new_session
                   THEN new_legacy(IF IsSome(checked) THEN Unwrap(checked) ELSE 0,
                                   session_id, t)
                   ELSE sess[session_id]
    IN  IF IsSome(checked) /\ Unwrap(checked) # 0
           /\ ~is_process_alive(a1, Unwrap(checked))
        THEN Outcome(sess, p2s, cache, <<>>, <<>>)
        ELSE IF session.pid # 0 /\ ~is_process_alive(a2, session.pid)
        THEN Outcome(MapInsert(sess, session_id, session), p2s, cache, <<>>, <<>>)
        ELSE ApplyLogEvent(ev, sess, p2s, cache, found_pid, is_new_session,
                           session, t, a2, z2)

(***************************************************************************)
(* session/finder.rs find_session_id_for_pid                               *)
(***************************************************************************)
\* scan is what the search of the debug directory yields (the stem of the
\* newest file containing ".tmp.<pid>.", or None); it is consulted only on
\* a cache miss.  The pair <<result, cache afterwards>>.
find_session_id_for_pid(pid, cache, scan) ==
    IF pid \in DOMAIN cache THEN <<Some(cache[pid]), cache>>
    ELSE IF IsSome(scan) THEN <<scan, MapInsert(cache, pid, Unwrap(scan))>>
    ELSE <<NoneOpt, cache>>

(***************************************************************************)
(* coordinator/core.rs handle_cpu_event                                    *)
(***************************************************************************)
\* The sample the Coordinator reads back from a stored CpuEvent.
CpuSample(ev) == [cpu_percent |-> ev.cpu_percent, timestamp |-> ev.timestamp]

\* The TTY check made for a Legacy session whose pid is in the index:
\* <<session afterwards, cleanup events sent>>.
CheckTtyIndexed(session, session_id, is_zombie) ==
    LET has_tty == ~is_zombie
        tty_changed == session.has_terminal # has_tty
        s1 == IF tty_changed THEN [session EXCEPT !.has_terminal = has_tty] ELSE session
        became == tty_changed /\ is_zombie
        s2 == IF became THEN [s1 EXCEPT !.current_status = "zombie"] ELSE s1
        send1 == IF became THEN <<SessionBecameZombie(session_id)>> ELSE <<>>
        corrects == is_zombie /\ s2.current_status # "zombie"
        s3 == IF corrects THEN [s2 EXCEPT !.current_status = "zombie"] ELSE s2
        send2 == IF corrects THEN <<SessionBecameZombie(session_id)>> ELSE <<>>
    IN  <<s3, send1 \o send2>>

\* The branch of handle_cpu_event for a pid found in the index.
CpuEventIndexed(ev, sess, p2s, cache, t, a1, z1, a2, z2) ==
    LET session_id == p2s[ev.pid]
        session == sess[session_id]
        s1 == [session EXCEPT !.last_cpu_event = Some(CpuSample(ev)),
                              !.last_update = t]
        s2 == IF s1.pid = 0 THEN [s1 EXCEPT !.pid = ev.pid] ELSE s1
        s3 == IF ev.cpu_percent > ActiveCpuPercent
              THEN [s2 EXCEPT !.last_active_timestamp = Some(t)] ELSE s2
        tty == IF s3.session_type = "Legacy"
               THEN CheckTtyIndexed(s3, session_id, is_zombie_by_tty(a1, z1, ev.pid))
               ELSE <<s3, <<>> >>
        s4 == tty[1]
        redecides == s4.current_status = "working" /\ s4.session_type = "Legacy"
        old_status == s4.current_status
        new_status == decide_status(s4, t, a2, z2)
        changes == redecides /\ new_status # old_status
        s5 == IF changes THEN [s4 EXCEPT !.current_status = new_status] ELSE s4
        changed == IF changes THEN <<emit_session_status_changed(s5)>> ELSE <<>>
        notified == IF changes /\ old_status = "working" /\ new_status = "resting"
                    THEN <<send_task_completion_notification(s5)>> ELSE <<>>
    IN  IF session_id \in DOMAIN sess
        THEN Outcome(MapInsert(sess, session_id, s5), p2s, cache,
                     changed \o notified, tty[2])
        ELSE Outcome(sess, p2s, cache, <<>>, <<>>)

\* Variant of CpuEventUnknown that writes the event's pid into the session
\* it found.
CpuEventUnknown_Rebinding(ev, sess, p2s, cache, scan, t, a1, z1, a2, z2) ==
    LET found == find_session_id_for_pid(ev.pid, cache, scan)
        found_session_id == found[1]
        session_id == Unwrap(found_session_id)
        session == IF session_id \in DOMAIN sess THEN sess[session_id]
                   ELSE [new_legacy(ev.pid, session_id, t)
                            EXCEPT !.current_status = "resting"]
        is_zombie == is_zombie_by_tty(a1, z1, ev.pid)
        s1 == [session EXCEPT !.pid = ev.pid,
                              !.last_cpu_event = Some(CpuSample(ev)),
                              !.last_update = t,
                              !.has_terminal = ~is_zombie]
        s2 == IF is_zombie THEN [s1 EXCEPT !.current_status = "zombie"] ELSE s1
        old_status == s2.current_status
        new_status == decide_status(s2, t, a2, z2)
        changes == new_status # old_status
        s3 == IF changes THEN [s2 EXCEPT !.current_status = new_status] ELSE s2
        changed == IF changes THEN <<emit_session_status_changed(s3)>> ELSE <<>>
    IN  IF IsSome(found_session_id)
        THEN Outcome(MapInsert(sess, session_id, s3),
                     MapInsert(p2s, ev.pid, session_id), found[2], changed, <<>>)
        ELSE Outcome(sess, p2s, found[2], <<>>, <<>>)

\* The branch of handle_cpu_event for a pid that is not in the index.
CpuEventUnknown(ev, sess, p2s, cache, scan, t, a1, z1, a2, z2) ==
    LET found == find_session_id_for_pid(ev.pid, cache, scan)
        found_session_id == found[1]
        session_id == Unwrap(found_session_id)
        session == IF session_id \in DOMAIN sess THEN sess[session_id]
                   ELSE [new_legacy(ev.pid, session_id, t)
                            EXCEPT !.current_status = "resting"]
        is_zombie == is_zombie_by_tty(a1, z1, ev.pid)
        s1 == [session EXCEPT !.last_cpu_event = Some(CpuSample(ev)),
                              !.last_update = t,
                              !.has_terminal = ~is_zombie]
        s2 == IF is_zombie THEN [s1 EXCEPT !.current_status = "zombie"] ELSE s1
        old_status == s2.current_status
        new_status == decide_status(s2, t, a2, z2)
        changes == new_status # old_status
        s3 == IF changes THEN [s2 EXCEPT !.current_status = new_status] ELSE s2
        changed == IF changes THEN <<emit_session_status_changed(s3)>> ELSE <<>>
    IN  IF IsSome(found_session_id)
        THEN Outcome(MapInsert(sess, session_id, s3),
                     MapInsert(p2s, ev.pid, session_id), found[2], changed, <<>>)
        ELSE Outcome(sess, p2s, found[2], <<>>, <<>>)

\* handle_cpu_event.  scan is the result of the debug-directory search;
\* a1/z1 is the process table at the TTY probe of the event's pid, a2/z2 at
\* the TTY probe made by decide_status.
handle_cpu_event(ev, sess, p2s, cache, scan, t, a1, z1, a2, z2) ==
    IF ev.pid \in DOMAIN p2s
    THEN CpuEventIndexed(ev, sess, p2s, cache, t, a1, z1, a2, z2)
    ELSE CpuEventUnknown(ev, sess, p2s, cache, scan, t, a1, z1, a2, z2)

(***************************************************************************)
(* coordinator/core.rs handle_hook_event                                   *)
(***************************************************************************)
HookStart(session_id, sess, t) ==
    LET is_new == session_id \notin DOMAIN sess
        session == IF is_new THEN new_hook(session_id, t) ELSE sess[session_id]
        s1 == upgrade_to_hook(session)[2]
        s2 == [s1 EXCEPT !.current_status = "resting", !.last_update = t]
    IN  [sessions |-> MapInsert(sess, session_id, s2),
         emitted |-> IF is_new THEN <<emit_session_created(s2)>> ELSE <<>>]

\* Variant of HookWorking that opens a session for an id it does not know.
HookWorking_Creating(session_id, sess, t) ==
    LET session == IF session_id \in DOMAIN sess THEN sess[session_id]
                   ELSE new_hook(session_id, t)
        s1 == upgrade_to_hook(session)[2]
        old_status == s1.current_status
        s2 == [s1 EXCEPT !.current_status = "working", !.last_update = t]
    IN  [sessions |-> MapInsert(sess, session_id, s2),
         emitted |-> IF old_status # "working"
                     THEN <<emit_session_status_changed(s2)>> ELSE <<>>]

HookWorking(session_id, sess, t) ==
    LET s1 == upgrade_to_hook(sess[session_id])[2]
        old_status == s1.current_status
        s2 == [s1 EXCEPT !.current_status = "working", !.last_update = t]
    IN  IF session_id \in DOMAIN sess
        THEN [sessions |-> MapInsert(sess, session_id, s2),
              emitted |-> IF old_status # "working"
                          THEN <<emit_session_status_changed(s2)>> ELSE <<>>]
        ELSE [sessions |-> sess, emitted |-> <<>>]

\* Variant of HookResting that notifies on every change to resting.
HookResting_NotifyOnChange(session_id, sess, t) ==
    LET s1 == upgrade_to_hook(sess[session_id])[2]
        old_status == s1.current_status
        s2 == [s1 EXCEPT !.current_status = "resting", !.last_update = t]
    IN  IF session_id \in DOMAIN sess
        THEN [sessions |-> MapInsert(sess, session_id, s2),
              emitted |->
                (IF old_status # "resting"
                 THEN <<emit_session_status_changed(s2)>> ELSE <<>>)
                \o (IF old_status # "resting"
                    THEN <<send_task_completion_notification(s2)>> ELSE <<>>)]
        ELSE [sessions |-> sess, emitted |-> <<>>]

HookResting(session_id, sess, t) ==
    LET s1 == upgrade_to_hook(sess[session_id])[2]
        old_status == s1.current_status
        s2 == [s1 EXCEPT !.current_status = "resting", !.last_update = t]
    IN  IF session_id \in DOMAIN sess
        THEN [sessions |-> MapInsert(sess, session_id, s2),
              emitted |->
                (IF old_status # "resting"
                 THEN <<emit_session_status_changed(s2)>> ELSE <<>>)
                \o (IF old_status = "working"
                    THEN <<send_task_completion_notification(s2)>> ELSE <<>>)]
        ELSE [sessions |-> sess, emitted |-> <<>>]

HookEnd(session_id, sess) ==
    IF session_id \in DOMAIN sess
    THEN [sessions |-> MapRemove(sess, session_id),
          emitted |-> <<emit_session_terminated(sess[session_id])>>]
    ELSE [sessions |-> sess, emitted |-> <<>>]

\* handle_hook_event: it is handed the session table only, so the index,
\* the cache and the cleanup channel are left as they are.
handle_hook_event(ev, sess, p2s, cache, t) ==
    LET r == CASE ev.evt = "start" -> HookStart(ev.sid, sess, t)
               [] ev.evt = "working" -> HookWorking(ev.sid, sess, t)
               [] ev.evt = "resting" -> HookResting(ev.sid, sess, t)
               [] ev.evt = "end" -> HookEnd(ev.sid, sess)
               [] OTHER -> [sessions |-> sess, emitted |-> <<>>]
    IN  Outcome(r.sessions, p2s, cache, r.emitted, <<>>)

(***************************************************************************)
(* coordinator/core.rs run_coordinator: what follows the handler in every  *)
(* iteration of the event loop                                             *)
(***************************************************************************)
\* The merge into the shared snapshot: every local session is inserted,
\* then the local sessions missing from the snapshot are dropped.
\* <<local table afterwards, snapshot afterwards>>
MergeShared(sess, shared) ==
    LET shared1 == [k \in DOMAIN shared \cup DOMAIN sess |->
                        IF k \in DOMAIN sess THEN sess[k] ELSE shared[k]]
        removed_ids == {k \in DOMAIN sess : k \notin DOMAIN shared1}
        sess1 == [k \in DOMAIN sess \ removed_ids |-> sess[k]]
    IN  <<sess1, shared1>>

StaleTableSize == 100
StaleThresholdSecs == 3600

RECURSIVE SeqOfSet(_)
\* One order in which a HashMap iteration may visit a set of entries.
SeqOfSet(S) ==
    IF S = {} THEN <<>>
    ELSE LET x == CHOOSE y \in S : TRUE IN <<x>> \o SeqOfSet(S \ {x})

\* cleanup_stale_sessions:
\* <<table afterwards, index afterwards, events emitted>>
cleanup_stale_sessions(sess, p2s, t) ==
    LET stale == {k \in DOMAIN sess :
                    SatSub(t, sess[k].last_update) > StaleThresholdSecs}
        stalePids == {sess[k].pid : k \in stale}
        order == SeqOfSet(stale)
    IN  <<[k \in DOMAIN sess \ stale |-> sess[k]],
          [q \in DOMAIN p2s \ stalePids |-> p2s[q]],
          [i \in 1..Len(order) |-> emit_session_terminated(sess[order[i]])]>>

\* The tail of one loop iteration applied to a handler's outcome: merge,
\* then the stale-session sweep when the table holds more than 100 entries.
AfterHandler(out, shared, t) ==
    LET m == MergeShared(out.sessions, shared)
        sweep == IF Cardinality(DOMAIN m[1]) > StaleTableSize
                 THEN cleanup_stale_sessions(m[1], out.pid_to_session, t)
                 ELSE <<m[1], out.pid_to_session, <<>> >>
    IN  [sessions |-> sweep[1], pid_to_session |-> sweep[2],
         shared_sessions |-> m[2], session_cache |-> out.session_cache,
         emitted |-> out.emitted \o sweep[3], sent |-> out.sent]

(***************************************************************************)
(* The process table seen by the probes of one step.  Between two probes   *)
(* of the same step a process may exit, lose its terminal or get it back.  *)
(***************************************************************************)
MidStepTables ==
    {<<alive, notty>>}
    \cup {<<alive \ {p}, notty \ {p}>> : p \in alive \cap DynamicPids}
    \cup {<<alive, notty \cup {p}>> : p \in (alive \cap DynamicPids) \ notty}
    \cup {<<alive, notty \ {p}>> : p \in notty}

LogEvents ==
    [session_id : LogSessionIds, pid : {NoneOpt} \cup {Some(p) : p \in Pids},
     state : {"ActivelyWorking", "Unknown"}, file_mtime : {now}]

CpuEvents ==
    [pid : Pids, cpu_percent : CpuPercents, timestamp : {now}]

HookEvents == [sid : SessionIds, evt : HookEvts]

\* The Coordinator commits the result of one loop iteration.
Commit(r, env2, op) ==
    /\ steps < MaxSteps
    /\ steps' = steps + 1
    /\ Len(cleanup_queue) + Len(r.sent) <= MaxQueue
    /\ sessions' = r.sessions
    /\ pid_to_session' = r.pid_to_session
    /\ shared_sessions' = r.shared_sessions
    /\ session_cache' = r.session_cache
    /\ cleanup_queue' = cleanup_queue \o r.sent
    /\ emitted' = r.emitted
    /\ alive' = env2[1]
    /\ notty' = env2[2]
    /\ last' = op
    /\ UNCHANGED <<now, call>>

\* One iteration of the event loop on MonitorEvent::Log
LogStep ==
    \E ev \in LogEvents, env2 \in MidStepTables :
    \E found_pid \in FoundPidChoices(sessions, ev.session_id) :
        Commit(AfterHandler(
                 handle_log_event(ev, sessions, pid_to_session, session_cache,
                                  found_pid, now, alive, env2[1], env2[2]),
                 shared_sessions, now),
               env2,
               [op |-> "Log", ev |-> ev, found_pid |-> found_pid,
                scan |-> NoneOpt, removed |-> {}])

\* One iteration of the event loop on MonitorEvent::Cpu
CpuStep ==
    \E ev \in CpuEvents, env2 \in MidStepTables :
    \E scan \in {NoneOpt} \cup {Some(id) : id \in SessionIds} :
        /\ ev.pid \in DOMAIN pid_to_session \cup DOMAIN session_cache
              => scan = NoneOpt
        /\ Commit(AfterHandler(
                    handle_cpu_event(ev, sessions, pid_to_session, session_cache,
                                     scan, now, alive, notty, env2[1], env2[2]),
                    shared_sessions, now),
                  env2,
                  [op |-> "Cpu", ev |-> ev, found_pid |-> NoneOpt,
                   scan |-> scan, removed |-> {}])

\* One iteration of the event loop on MonitorEvent::Hook
HookStep ==
    \E ev \in HookEvents :
        /\ ev.sid \in SessionIds
        /\ Commit(AfterHandler(
                    handle_hook_event(ev, sessions, pid_to_session, session_cache,
                                      now),
                    shared_sessions, now),
                  <<alive, notty>>,
                  [op |-> "Hook", ev |-> ev, found_pid |-> NoneOpt,
                   scan |-> NoneOpt, removed |-> {}])

(***************************************************************************)
(* session/cleaner.rs: each handler maps the shared snapshot to the        *)
(* snapshot it leaves, a being the process table it probes.                *)
(***************************************************************************)
cleanup_terminated_process(shared, pid, a) ==
    LET sessions_to_remove == {k \in DOMAIN shared :
                                 shared[k].pid = pid /\ ~is_process_alive(a, pid)}
    IN  [k \in DOMAIN shared \ sessions_to_remove |-> shared[k]]

cleanup_zombie_session(shared, session_id, a) ==
    IF session_id \notin DOMAIN shared THEN shared
    ELSE IF shared[session_id].pid = 0 THEN shared
    ELSE IF ~is_process_alive(a, shared[session_id].pid)
         THEN MapRemove(shared, session_id)
    ELSE shared

\* Variant of check_and_cleanup_dead_sessions that keeps the dead sessions
\* and marks them zombie.
check_and_cleanup_dead_sessions_Marking(shared, a) ==
    [k \in DOMAIN shared |->
        IF shared[k].pid # 0 /\ ~is_process_alive(a, shared[k].pid)
        THEN [shared[k] EXCEPT !.current_status = "zombie"] ELSE shared[k]]

check_and_cleanup_dead_sessions(shared, a) ==
    LET dead_sessions == {k \in DOMAIN shared :
                            shared[k].pid # 0 /\ ~is_process_alive(a, shared[k].pid)}
    IN  [k \in DOMAIN shared \ dead_sessions |-> shared[k]]

force_cleanup_session(shared, session_id) == MapRemove(shared, session_id)

cleanup_all_zombies(shared, a) ==
    LET zombie_sessions ==
            {k \in DOMAIN shared :
                \/ StartsWith(k, "pid-") /\ shared[k].current_status = "zombie"
                \/ /\ shared[k].current_status = "zombie"
                   /\ (shared[k].pid = 0 \/ ~is_process_alive(a, shared[k].pid))}
    IN  [k \in DOMAIN shared \ zombie_sessions |-> shared[k]]

\* handle_cleanup_event
handle_cleanup_event(event, shared, a) ==
    CASE event.kind = "ProcessTerminated" ->
            cleanup_terminated_process(shared, event.pid, a)
      [] event.kind = "SessionBecameZombie" ->
            cleanup_zombie_session(shared, event.sid, a)
      [] event.kind = "CheckDeadSessions" ->
            check_and_cleanup_dead_sessions(shared, a)
      [] event.kind = "ForceCleanup" ->
            force_cleanup_session(shared, event.sid)
      [] event.kind = "CleanupZombies" ->
            cleanup_all_zombies(shared, a)

\* The cleaner handles one event; only the snapshot changes.
CleanerHandle(event) ==
    /\ steps < MaxSteps
    /\ steps' = steps + 1
    /\ shared_sessions' = handle_cleanup_event(event, shared_sessions, alive)
    /\ emitted' = <<>>
    /\ last' = [op |-> "Cleaner", ev |-> event, found_pid |-> NoneOpt,
                scan |-> NoneOpt,
                removed |-> DOMAIN shared_sessions
                            \ DOMAIN handle_cleanup_event(event, shared_sessions, alive)]
    /\ UNCHANGED <<sessions, pid_to_session, session_cache, alive, notty, now, call>>

\* SessionCleaner::run receives the event the Coordinator sent first.
CleanerRecvZombie ==
    /\ cleanup_queue # <<>>
    /\ cleanup_queue' = Tail(cleanup_queue)
    /\ CleanerHandle(Head(cleanup_queue))

\* ProcessTerminated(pid), from any holder of the cleanup sender
CleanerProcessTerminated ==
    \E pid \in Pids \cup {0} :
        /\ CleanerHandle([kind |-> "ProcessTerminated", pid |-> pid])
        /\ UNCHANGED cleanup_queue

\* ForceCleanup(sid), from any holder of the cleanup sender
CleanerForceCleanup ==
    \E sid \in SessionIds :
        /\ CleanerHandle([kind |-> "ForceCleanup", sid |-> sid])
        /\ UNCHANGED cleanup_queue

\* CheckDeadSessions, sent by the timer thread of start_session_cleaner
CleanerCheckDeadSessions ==
    /\ CleanerHandle([kind |-> "CheckDeadSessions"])
    /\ UNCHANGED cleanup_queue

\* CleanupZombies, sent by the timer thread of start_session_cleaner
CleanerCleanupZombies ==
    /\ CleanerHandle([kind |-> "CleanupZombies"])
    /\ UNCHANGED cleanup_queue

(***************************************************************************)
(* The environment: processes exit, terminals are lost and found again      *)
(* while the Coordinator and the cleaner run.                              *)
(***************************************************************************)
EnvOp == [op |-> "Env", ev |-> [kind |-> "env"], found_pid |-> NoneOpt,
          scan |-> NoneOpt, removed |-> {}]

EnvFrame ==
    /\ emitted' = <<>>
    /\ last' = EnvOp
    /\ UNCHANGED <<sessions, pid_to_session, shared_sessions, session_cache,
                   cleanup_queue, steps, call>>

\* A process exits; its pid is not reused within the window observed.
ProcessExit ==
    \E p \in alive \cap DynamicPids :
        /\ alive' = alive \ {p}
        /\ notty' = notty \ {p}
        /\ UNCHANGED now
        /\ EnvFrame

TtyLost ==
    \E p \in (alive \cap DynamicPids) \ notty :
        /\ notty' = notty \cup {p}
        /\ UNCHANGED <<alive, now>>
        /\ EnvFrame

TtyBack ==
    \E p \in alive \cap notty :
        /\ notty' = notty \ {p}
        /\ UNCHANGED <<alive, now>>
        /\ EnvFrame

NoCall == [fn |-> "none"]

\* The Coordinator and the cleaner as they are before the first event.
Idle ==
    /\ sessions = EmptyMap
    /\ pid_to_session = EmptyMap
    /\ shared_sessions = EmptyMap
    /\ session_cache = EmptyMap
    /\ cleanup_queue = <<>>
    /\ alive = Pids
    /\ notty = {}
    /\ now = 0
    /\ emitted = <<>>
    /\ last = [op |-> "Init", ev |-> [kind |-> "init"], found_pid |-> NoneOpt,
               scan |-> NoneOpt, removed |-> {}]
    /\ steps = 0

IdleVars == <<sessions, pid_to_session, shared_sessions, session_cache,
              cleanup_queue, alive, notty, now, emitted, last, steps>>

Init ==
    /\ Idle
    /\ call = NoCall

Next ==
    \/ LogStep
    \/ CpuStep
    \/ HookStep
    \/ CleanerRecvZombie
    \/ CleanerProcessTerminated
    \/ CleanerForceCleanup
    \/ CleanerCheckDeadSessions
    \/ CleanerCleanupZombies
    \/ ProcessExit
    \/ TtyLost
    \/ TtyBack

Spec == Init /\ [][Next]_vars

(***************************************************************************)
(* Properties of the Coordinator and the cleaner, checked under Spec.      *)
(***************************************************************************)
CoordinatorOps == {"Log", "Cpu", "Hook"}

\* C1: a session the cleaner removed from the shared snapshot while the
\* Coordinator still holds it is, after the Coordinator's next step, in
\* neither the local table nor the snapshot (the step's own event not being
\* one that creates the session: a Hook start or a LogEvent for it, or a
\* CpuEvent resolved to it).
C1_CleanerDeletePropagates ==
    [][\A sid \in SessionIds :
          (/\ last'.op \in CoordinatorOps
           /\ sid \in DOMAIN sessions
           /\ sid \notin DOMAIN shared_sessions
           /\ ~(last'.op = "Hook" /\ last'.ev.sid = sid /\ last'.ev.evt = "start")
           /\ ~(last'.op = "Log" /\ last'.ev.session_id = sid)
           /\ ~(last'.op = "Cpu" /\ last'.scan = Some(sid)))
          => (sid \notin DOMAIN sessions' /\ sid \notin DOMAIN shared_sessions')]_vars

\* C2: after a Coordinator step the snapshot and the local table have the
\* same keys.
C2_SnapshotKeysEqualLocalKeys ==
    last.op \in CoordinatorOps => DOMAIN shared_sessions = DOMAIN sessions

VisibleStatuses == {"working", "resting", "zombie"}

\* C3: every session of the local table and of the snapshot has a status
\* among working, resting and zombie.
C3_StatusTotality ==
    /\ \A sid \in DOMAIN sessions :
           sessions[sid].current_status \in VisibleStatuses
    /\ \A sid \in DOMAIN shared_sessions :
           shared_sessions[sid].current_status \in VisibleStatuses

\* C4: a Log or Cpu step leaves the status of a Hook-origin session as it
\* was, or makes it zombie while the session has no terminal or the TTY
\* probe of its pid reports zombie.
C4_HookAuthority ==
    [][\A sid \in DOMAIN sessions :
          (/\ last'.op \in {"Log", "Cpu"}
           /\ sessions[sid].session_type = "Hook"
           /\ sid \in DOMAIN sessions')
          => \/ sessions'[sid].current_status = sessions[sid].current_status
             \/ /\ sessions'[sid].current_status = "zombie"
                /\ \/ ~sessions'[sid].has_terminal
                   \/ is_zombie_by_tty(alive', notty', sessions'[sid].pid)]_vars

\* C4 witness: a LogEvent has been applied to a Hook session that a Hook
\* working event had set working.
C4_Witness ==
    /\ last.op = "Log"
    /\ last.ev.session_id \in DOMAIN sessions
    /\ LET s == sessions[last.ev.session_id]
       IN  /\ s.session_type = "Hook"
           /\ s.current_status = "working"
           /\ s.last_log_event = Some(LogSample(last.ev))

\* The pid a Log step checks first: the one found in a temporary session,
\* else the one the event carries.
CheckedPid(op) == OptOr(op.found_pid, op.ev.pid)

\* A liveness probe made by the Log step just taken answered "not alive":
\* the probe of the checked pid, or the probe of the pid recorded in the
\* target session (for a new session, the pid it is created with).
LogStepSawDeadPid ==
    LET checked == CheckedPid(last')
        sid == last'.ev.session_id
    IN  \/ /\ IsSome(checked)
           /\ ~is_process_alive(alive, Unwrap(checked))
        \/ /\ sid \in DOMAIN sessions
           /\ sessions[sid].pid # 0
           /\ ~is_process_alive(alive', sessions[sid].pid)
        \/ /\ sid \notin DOMAIN sessions
           /\ IsSome(checked)
           /\ ~is_process_alive(alive', Unwrap(checked))

\* C5: a Log step in which a liveness probe reports the pid not alive
\* changes neither the table nor the index and emits nothing.
C5_DeadPidIsNoOp ==
    [][(last'.op = "Log" /\ LogStepSawDeadPid)
          => /\ sessions' = sessions
             /\ pid_to_session' = pid_to_session
             /\ emitted' = <<>>]_vars

\* C6: every entry pid -> sid of the index names a session of the table
\* whose pid field is that pid.
C6_IndexMatchesTable ==
    \A pid \in DOMAIN pid_to_session :
        /\ pid_to_session[pid] \in DOMAIN sessions
        /\ sessions[pid_to_session[pid]].pid = pid

\* C7: no two sessions of the table hold the same non-zero pid.
C7_PidUnique ==
    \A a, b \in DOMAIN sessions :
        (a # b /\ sessions[a].pid # 0) => sessions[a].pid # sessions[b].pid

\* C8: when the table holds the temporary session pid-<P> with pid P, P
\* alive, a Log step for a real id S whose event carries pid P leaves S in
\* the table with pid P and removes pid-<P>.
C8_MergeLaw ==
    [][\A P \in Pids :
          (/\ last'.op = "Log"
           /\ last'.ev.pid = Some(P)
           /\ ~StartsWith(last'.ev.session_id, "pid-")
           /\ TempId(P) \in DOMAIN sessions
           /\ sessions[TempId(P)].pid = P
           /\ P \in alive /\ P \in alive')
          => /\ last'.ev.session_id \in DOMAIN sessions'
             /\ sessions'[last'.ev.session_id].pid = P
             /\ TempId(P) \notin DOMAIN sessions']_vars

(***************************************************************************)
(* upgrade_to_hook applied to one session drawn from UpgradeSessions.      *)
(***************************************************************************)
UpgradeIds ==
    {U1, T1, "$SESSION_ID", "aaaaaaaa-0000",
     "pid-aaaa-0000-4000-8000-000000000001",
     "$aaaaaaa-0000-4000-8000-000000000001"}

\* The placeholder status is that of a Legacy session only: a Hook session
\* is created resting and every Hook event that upgrades sets the status.
UpgradeSessions ==
    {s \in [pid : {0, 12345}, session_id : UpgradeIds,
            session_type : {"Legacy", "Hook"},
            last_log_event : {NoneOpt, Some([state |-> "ActivelyWorking",
                                             file_mtime |-> 0])},
            last_cpu_event : {NoneOpt, Some([cpu_percent |-> 101, timestamp |-> 0])},
            current_status : {"unknown", "working", "resting", "zombie"},
            has_terminal : BOOLEAN, last_update : {0},
            last_active_timestamp : {NoneOpt}] :
        s.session_type = "Hook" => s.current_status # "unknown"}

InitUpgrade ==
    /\ Idle
    /\ call \in {[fn |-> "upgrade_to_hook", arg |-> s, done |-> FALSE,
                  ret |-> FALSE, after |-> s] : s \in UpgradeSessions}

UpgradeCall ==
    /\ call.fn = "upgrade_to_hook"
    /\ ~call.done
    /\ call' = [call EXCEPT !.done = TRUE,
                            !.ret = upgrade_to_hook(call.arg)[1],
                            !.after = upgrade_to_hook(call.arg)[2]]
    /\ UNCHANGED IdleVars

SpecUpgrade == InitUpgrade /\ [][UpgradeCall]_vars

\* A well-formed session id in the sense of the upgrade law.
WellFormedUuid(id) ==
    Len(id) = 36 /\ ~StartsWith(id, "pid-") /\ ~StartsWith(id, "$")

\* What the upgrade law says of the session after the call.
UpgradeEffect ==
    /\ call.ret => call.after = [call.arg EXCEPT !.session_type = "Hook"]
    /\ ~call.ret => call.after = call.arg

DecideTimes == {100}
CpuAges == {0, 9, 10, 11}
CpuLevels == {0, 5, 6, 100, 101}
LogAges == {0, 4, 5, 29, 30, 44, 45, 46}
UpdateAges == {0, 60, 61}

DecideSessions(t) ==
    {s \in [pid : {0, 12345}, session_id : {U1},
            session_type : {"Legacy", "Hook"},
            last_log_event :
                {NoneOpt} \cup {Some(l) : l \in
                    [state : {"ActivelyWorking", "Unknown"},
                     file_mtime : {t - a : a \in LogAges}]},
            last_cpu_event :
                {NoneOpt} \cup {Some(c) : c \in
                    [cpu_percent : CpuLevels, timestamp : {t - a : a \in CpuAges}]},
            current_status : {"unknown", "working", "resting", "zombie"},
            has_terminal : BOOLEAN,
            last_update : {t - a : a \in UpdateAges},
            last_active_timestamp : {NoneOpt}] :
        s.session_type = "Hook" => s.current_status # "unknown"}

InitDecide ==
    /\ Idle
    /\ call \in {[fn |-> "decide_status", arg |-> s, t |-> t, z |-> z,
                  done |-> FALSE, ret |-> "pending"] :
                    s \in UNION {DecideSessions(u) : u \in DecideTimes},
                    t \in DecideTimes, z \in SUBSET {12345}}

DecideCall ==
    /\ call.fn = "decide_status"
    /\ ~call.done
    /\ call' = [call EXCEPT !.done = TRUE,
                            !.ret = decide_status(call.arg, call.t, {12345}, call.z)]
    /\ UNCHANGED IdleVars

SpecDecide == InitDecide /\ [][DecideCall]_vars

\* "A CPU sample at most 10 s old"
FreshWithin10(age) == age <= 10

\* "A CPU sample less than 10 s old"
FreshUnder10(age) == age < 10

\* Decision rules 1-7 of the specification, the first matching rule
\* winning; Fresh says when a CPU sample of a given age counts as recent,
\* ttyZombie is the answer of the TTY probe of the session's pid.
RulesStatus(s, t, ttyZombie, Fresh(_)) ==
    LET hasCpu == s.last_cpu_event # <<>>
        cpuPct == s.last_cpu_event[1].cpu_percent
        cpuAge == IF t >= s.last_cpu_event[1].timestamp
                  THEN t - s.last_cpu_event[1].timestamp ELSE 0
        freshCpu == hasCpu /\ Fresh(cpuAge)
        hasLog == s.last_log_event # <<>>
        logAge == IF t >= s.last_log_event[1].file_mtime
                  THEN t - s.last_log_event[1].file_mtime ELSE 0
        sinceUpdate == IF t >= s.last_update THEN t - s.last_update ELSE 0
        rule4 == /\ s.current_status = "working"
                 /\ freshCpu /\ cpuPct <= 5
                 /\ \/ hasLog /\ logAge > 45
                    \/ ~hasLog /\ sinceUpdate > 60
        rule5 == hasLog /\ s.last_log_event[1].state = "ActivelyWorking"
        rule6 == freshCpu /\ cpuPct > 100
    IN  CASE ~s.has_terminal -> "zombie"
          [] s.has_terminal /\ s.pid # 0 /\ ttyZombie -> "zombie"
          [] OTHER ->
             IF s.session_type = "Hook" THEN s.current_status
             ELSE IF rule4 THEN "resting"
             ELSE IF rule5
                  THEN IF logAge >= 30 THEN "resting"
                       ELSE IF freshCpu /\ cpuPct > 100 THEN "working"
                       ELSE IF freshCpu /\ cpuPct <= 100 /\ logAge < 30 THEN "working"
                       ELSE IF freshCpu /\ cpuPct <= 100 /\ logAge >= 30 THEN "resting"
                       ELSE IF s.pid # 0 /\ logAge < 5 THEN "working"
                       ELSE "resting"
             ELSE IF rule6 THEN "working"
             ELSE "resting"

EmptyTables ==
    [sessions |-> EmptyMap, pid_to_session |-> EmptyMap,
     shared_sessions |-> EmptyMap, session_cache |-> EmptyMap]

\* One iteration of the event loop on a LogEvent, from tables st, the
\* process table being a/z throughout.
StepLog(st, ev, t, a, z) ==
    LET found_pid == CHOOSE f \in FoundPidChoices(st.sessions, ev.session_id) : TRUE
    IN  AfterHandler(handle_log_event(ev, st.sessions, st.pid_to_session,
                                      st.session_cache, found_pid, t, a, a, z),
                     st.shared_sessions, t)

\* One iteration of the event loop on a CpuEvent.
StepCpu(st, ev, scan, t, a, z) ==
    AfterHandler(handle_cpu_event(ev, st.sessions, st.pid_to_session,
                                  st.session_cache, scan, t, a, z, a, z),
                 st.shared_sessions, t)

\* The tables the two events meet: no session yet; U1 discovered by a
\* CpuEvent for pid 12345; U1 discovered and then reported working by its
\* log.
OrderStarts ==
    LET discovered == StepCpu(EmptyTables,
                              [pid |-> 12345, cpu_percent |-> 5, timestamp |-> 0],
                              Some(U1), 0, Pids, {})
        logged == StepLog(discovered,
                          [session_id |-> U1, pid |-> NoneOpt,
                           state |-> "ActivelyWorking", file_mtime |-> 0],
                          0, Pids, {})
    IN  {EmptyTables, discovered, logged}

InitOrder ==
    /\ Idle
    /\ call \in {[fn |-> "order", start |-> st, log |-> l, cpu |-> c,
                  scan |-> sc, z |-> z, done |-> FALSE,
                  log_first |-> st, cpu_first |-> st] :
                    st \in OrderStarts, l \in LogEvents, c \in CpuEvents,
                    sc \in {NoneOpt, Some(U1)}, z \in SUBSET DynamicPids}

OrderCall ==
    /\ call.fn = "order"
    /\ ~call.done
    /\ call' = [call EXCEPT
           !.done = TRUE,
           !.log_first = StepCpu(StepLog(call.start, call.log, now, Pids, call.z),
                                 call.cpu, call.scan, now, Pids, call.z),
           !.cpu_first = StepLog(StepCpu(call.start, call.cpu, call.scan,
                                         now, Pids, call.z),
                                 call.log, now, Pids, call.z)]
    /\ UNCHANGED IdleVars

SpecOrder == InitOrder /\ [][OrderCall]_vars

\* Both events reached the session sid of a result r: the log sample and
\* the CPU sample of the session are those of the two events.
BothApplied(r, sid) ==
    /\ sid \in DOMAIN r.sessions
    /\ r.sessions[sid].session_type = "Legacy"
    /\ r.sessions[sid].last_log_event = Some(LogSample(call.log))
    /\ r.sessions[sid].last_cpu_event = Some(CpuSample(call.cpu))

\* C11: when a LogEvent and a CpuEvent have both been applied to a Legacy
\* session, the session's status is the same whichever came first.
C11_OrderIndependent ==
    (/\ call.fn = "order" /\ call.done
     /\ BothApplied(call.log_first, call.log.session_id)
     /\ BothApplied(call.cpu_first, call.log.session_id))
        => call.log_first.sessions[call.log.session_id].current_status
             = call.cpu_first.sessions[call.log.session_id].current_status

(***************************************************************************)
(* Further properties of the Coordinator and the cleaner, checked under    *)
(* Spec.                                                                   *)
(***************************************************************************)
\* The process table did not change while the step just taken ran.
StableTables == alive' = alive /\ notty' = notty

\* What makes a session s a zombie with the process table a/z: it has no
\* terminal, its process is gone, or the TTY probe of its pid says zombie.
ZombieCause(s, a, z) ==
    \/ ~s.has_terminal
    \/ ~is_process_alive(a, s.pid)
    \/ is_zombie_by_tty(a, z, s.pid)

\* C12: after a Cpu step for a pid of the index, made with the process
\* table unchanged, the session the pid is bound to is zombie only if it
\* has no terminal, its process is gone or its TTY probe reports zombie.
C12_ZombieHasCause ==
    [][\A sid \in DOMAIN sessions' :
          (/\ last'.op = "Cpu"
           /\ StableTables
           /\ last'.ev.pid \in DOMAIN pid_to_session
           /\ pid_to_session[last'.ev.pid] = sid
           /\ sessions'[sid].current_status = "zombie")
          => ZombieCause(sessions'[sid], alive', notty')]_vars

\* The cleaner operations that remove a session because its process is
\* gone.
DeadPidCleanups == {"ProcessTerminated", "SessionBecameZombie", "CheckDeadSessions"}

\* The cleaner operation just finished removed the session sid from the
\* snapshot after finding its process gone.
CleanerRemovedDead(sid) ==
    /\ last.op = "Cleaner"
    /\ last.ev.kind \in DeadPidCleanups
    /\ sid \in last.removed
    /\ sid \in DOMAIN sessions
    /\ sessions[sid].pid # 0
    /\ ~is_process_alive(alive, sessions[sid].pid)

\* The same of a session that is zombie.
CleanerFoundDead(sid) ==
    /\ CleanerRemovedDead(sid)
    /\ sessions[sid].current_status = "zombie"

\* C13: the Coordinator step that follows the cleaner's finding the pid of
\* a zombie session dead leaves the session, if it is still in the table,
\* zombie.
C13_DeadZombieStaysZombie ==
    [][\A sid \in SessionIds :
          (/\ CleanerFoundDead(sid)
           /\ last'.op \in CoordinatorOps
           /\ sid \in DOMAIN sessions')
          => sessions'[sid].current_status = "zombie"]_vars

\* C14: a Coordinator step, made with the process table unchanged, that
\* takes a session of the table from a status other than zombie to zombie
\* appends exactly SessionBecameZombie(sid) to the cleanup channel.
C14_ZombieIsEnqueued ==
    [][\A sid \in DOMAIN sessions :
          (/\ last'.op \in CoordinatorOps
           /\ StableTables
           /\ sid \in DOMAIN sessions'
           /\ sessions[sid].current_status # "zombie"
           /\ sessions'[sid].current_status = "zombie")
          => cleanup_queue' = cleanup_queue \o <<SessionBecameZombie(sid)>>]_vars

\* The number of events of topic tp about session sid in a sequence.
CountEvents(evs, tp, sid) ==
    Cardinality({i \in 1..Len(evs) : evs[i].topic = tp /\ evs[i].sid = sid})

\* C15: a Hook end step for a session of the table emits exactly one
\* session-terminated for it; the Coordinator step that follows the
\* cleaner's removal of a session whose process is gone emits exactly one
\* session-terminated for it; and a Coordinator step emits none for a
\* session it leaves in the table.
C15_DestructionIsAnnounced ==
    [][\A sid \in SessionIds :
          /\ (/\ last'.op = "Hook" /\ last'.ev.evt = "end" /\ last'.ev.sid = sid
              /\ sid \in DOMAIN sessions)
             => CountEvents(emitted', "session-terminated", sid) = 1
          /\ (CleanerRemovedDead(sid) /\ last'.op \in CoordinatorOps)
             => CountEvents(emitted', "session-terminated", sid) = 1
          /\ (last'.op \in CoordinatorOps /\ sid \in DOMAIN sessions')
             => CountEvents(emitted', "session-terminated", sid) = 0]_vars

\* C16: a Hook step sends one task-completion notification for its session
\* when it applies a resting event to a session that is working, and none
\* otherwise.
C16_CompletionOnWorkingToResting ==
    [][last'.op = "Hook" =>
          \A sid \in SessionIds :
             CountEvents(emitted', "task-completion", sid)
               = IF /\ last'.ev.evt = "resting"
                    /\ last'.ev.sid = sid
                    /\ sid \in DOMAIN sessions
                    /\ sessions[sid].current_status = "working"
                 THEN 1 ELSE 0]_vars

\* C16 witness: a Hook resting event has been applied to a session that was
\* working and the notification has been sent.
C16_Witness ==
    /\ last.op = "Hook" /\ last.ev.evt = "resting"
    /\ last.ev.sid \in DOMAIN sessions
    /\ sessions[last.ev.sid].current_status = "resting"
    /\ CountEvents(emitted, "task-completion", last.ev.sid) = 1

\* C17: a Coordinator step, made with the process table unchanged, at whose
\* end a Legacy session has a non-zero pid for the first time emits exactly
\* one session-created for it, and a step that leaves a Legacy session with
\* pid 0 emits none for it.
C17_CreatedOnFirstPid ==
    [][\A sid \in DOMAIN sessions' :
          (/\ last'.op \in CoordinatorOps
           /\ StableTables
           /\ sessions'[sid].session_type = "Legacy")
          => /\ (/\ sessions'[sid].pid # 0
                 /\ (sid \notin DOMAIN sessions \/ sessions[sid].pid = 0))
                => CountEvents(emitted', "session-created", sid) = 1
             /\ sessions'[sid].pid = 0
                => CountEvents(emitted', "session-created", sid) = 0]_vars

(***************************************************************************)
(* One iteration of the event loop on a Hook event, long after the         *)
(* sessions of the table were created: the stale-session sweep.            *)
(***************************************************************************)
\* The id of the i-th additional session, 36 characters long.
FillerId(i) == "bbbbbbbb-0000-4000-8000-000000000" \o ToString(100 + i)

\* One iteration of the event loop on a HookEvent, from tables st.
StepHook(st, ev, t) ==
    AfterHandler(handle_hook_event(ev, st.sessions, st.pid_to_session,
                                   st.session_cache, t),
                 st.shared_sessions, t)

\* A table of n sessions: U1, discovered at time 0 by a CpuEvent for pid
\* 12345, and n - 1 sessions opened by Hook start events at time tf.
StaleTables(n, tf) ==
    LET discovered == StepCpu(EmptyTables,
                              [pid |-> 12345, cpu_percent |-> 5, timestamp |-> 0],
                              Some(U1), 0, Pids, {})
        fillers == {FillerId(i) : i \in 1..(n - 1)}
        table == [id \in {U1} \cup fillers |->
                     IF id = U1 THEN discovered.sessions[U1] ELSE new_hook(id, tf)]
    IN  [sessions |-> table, pid_to_session |-> discovered.pid_to_session,
         shared_sessions |-> table, session_cache |-> discovered.session_cache]

InitStale ==
    /\ Idle
    /\ \E n \in {1, 2, StaleTableSize + 1} :
         \* the additional sessions of the large table are all opened at the
         \* later time, so that at most U1 is stale in it
         \E tf \in IF n > StaleTableSize THEN {StaleThresholdSecs}
                    ELSE {0, StaleThresholdSecs} :
         call \in {[fn |-> "stale", before |-> StaleTables(n, tf), t |-> t,
                    ev |-> [sid |-> sid, evt |-> evt], done |-> FALSE,
                    after |-> EmptyTables] :
                      t \in {StaleThresholdSecs, StaleThresholdSecs + 1,
                             2 * StaleThresholdSecs},
                      sid \in {U1, FillerId(1)}, evt \in HookEvts}

StaleCall ==
    /\ call.fn = "stale"
    /\ ~call.done
    /\ call' = [call EXCEPT !.done = TRUE,
                            !.after = StepHook(call.before, call.ev, call.t)]
    /\ UNCHANGED IdleVars

SpecStale == InitStale /\ [][StaleCall]_vars

\* C18: a session whose last update lies more than 3600 s back when an
\* event for another session is handled is, after the step, out of the
\* table and of the pid index, and one session-terminated was emitted for
\* it, whatever the size of the table.
C18_StaleRemovedAtNextStep ==
    (call.fn = "stale" /\ call.done) =>
        \A sid \in DOMAIN call.before.sessions :
            (/\ sid # call.ev.sid
             /\ call.t - call.before.sessions[sid].last_update > 3600)
            => /\ sid \notin DOMAIN call.after.sessions
               /\ call.before.sessions[sid].pid
                     \notin DOMAIN call.after.pid_to_session
               /\ CountEvents(call.after.emitted, "session-terminated", sid) = 1

(***************************************************************************)
(* Shutdown.  The threads and the two channels: the MonitorEvent channel   *)
(* read by the Coordinator and the CleanupEvent channel read by the        *)
(* SessionCleaner.  A recv on a std::sync::mpsc channel reports            *)
(* disconnection when the queue is empty and every Sender has been         *)
(* dropped; a send fails when the Receiver has been dropped.               *)
(***************************************************************************)
Producers == {"scanner", "watcher", "receiver"}

\* The threads as start_coordinator_with_cleanup and start_session_cleaner
\* leave them.  event_sender_kept says whether the Sender<MonitorEvent>
\* handed to the cleaner is one of the Coordinator's channel, caller_sender
\* whether the caller still holds the cleanup sender returned to it.
ThreadsStarted(kept, held) ==
    [fn |-> "threads",
     producers |-> Producers,     \* the producer threads still running
     events |-> <<>>,             \* MonitorEvents in flight
     coordinator |-> "running", cleaner |-> "running", timer |-> "running",
     timer_next |-> "CheckDeadSessions",
     event_sender_kept |-> kept, caller_sender |-> held]

\* The holders of a Sender<MonitorEvent>: the producers, and the
\* SessionCleaner, which stores the one given to SessionCleaner::new.
EventSenders ==
    call.producers
    \cup (IF call.cleaner = "running" /\ call.event_sender_kept
          THEN {"cleaner"} ELSE {})

\* The holders of a Sender<CleanupEvent>: the Coordinator, the timer
\* thread, the caller of start_session_cleaner, and the SessionCleaner
\* itself, which stores cleanup_sender next to cleanup_receiver.
CleanupSenders ==
    (IF call.coordinator = "running" THEN {"coordinator"} ELSE {})
    \cup (IF call.timer = "running" THEN {"timer"} ELSE {})
    \cup (IF call.caller_sender THEN {"caller"} ELSE {})
    \cup (IF call.cleaner = "running" THEN {"cleaner"} ELSE {})

InitShutdown ==
    /\ Idle
    /\ call \in {ThreadsStarted(kept, held) : kept \in BOOLEAN, held \in BOOLEAN}

ShutdownFrame == UNCHANGED <<alive, notty, now, emitted, last, steps>>

\* The HookReceiver forwards an event it does not know.
ProducerSend ==
    /\ call.fn = "threads"
    /\ "receiver" \in call.producers
    /\ call.coordinator = "running"
    /\ Len(call.events) < MaxQueue
    /\ call' = [call EXCEPT !.events = Append(@, [sid |-> U1, evt |-> "other"])]
    /\ UNCHANGED <<sessions, pid_to_session, shared_sessions, session_cache,
                   cleanup_queue>>
    /\ ShutdownFrame

\* A producer thread ends and drops its sender.
ProducerExit ==
    /\ call.fn = "threads"
    /\ \E p \in call.producers : call' = [call EXCEPT !.producers = @ \ {p}]
    /\ UNCHANGED <<sessions, pid_to_session, shared_sessions, session_cache,
                   cleanup_queue>>
    /\ ShutdownFrame

\* One recv of run_coordinator: an event is handled, or the channel is
\* disconnected and the loop is left, dropping the cleanup sender.
CoordinatorRecv ==
    /\ call.fn = "threads"
    /\ call.coordinator = "running"
    /\ call.events # <<>> \/ EventSenders = {}
    /\ IF call.events # <<>>
       THEN LET r == StepHook([sessions |-> sessions,
                               pid_to_session |-> pid_to_session,
                               shared_sessions |-> shared_sessions,
                               session_cache |-> session_cache],
                              Head(call.events), now)
            IN  /\ sessions' = r.sessions
                /\ pid_to_session' = r.pid_to_session
                /\ shared_sessions' = r.shared_sessions
                /\ session_cache' = r.session_cache
                /\ call' = [call EXCEPT !.events = Tail(@)]
       ELSE /\ call' = [call EXCEPT !.coordinator = "exited"]
            /\ UNCHANGED <<sessions, pid_to_session, shared_sessions,
                           session_cache>>
    /\ UNCHANGED cleanup_queue
    /\ ShutdownFrame

\* One send of the timer thread of start_session_cleaner: the thread ends
\* when the send fails.
TimerSend ==
    /\ call.fn = "threads"
    /\ call.timer = "running"
    /\ IF call.cleaner = "exited"
       THEN /\ call' = [call EXCEPT !.timer = "exited"]
            /\ UNCHANGED cleanup_queue
       ELSE /\ Len(cleanup_queue) < MaxQueue
            /\ cleanup_queue' = Append(cleanup_queue, [kind |-> call.timer_next])
            /\ call' = [call EXCEPT !.timer_next =
                            IF @ = "CheckDeadSessions" THEN "CleanupZombies"
                            ELSE "CheckDeadSessions"]
    /\ UNCHANGED <<sessions, pid_to_session, shared_sessions, session_cache>>
    /\ ShutdownFrame

\* One recv of SessionCleaner::run.
CleanerRecv ==
    /\ call.fn = "threads"
    /\ call.cleaner = "running"
    /\ cleanup_queue # <<>> \/ CleanupSenders = {}
    /\ IF cleanup_queue # <<>>
       THEN /\ shared_sessions' = handle_cleanup_event(Head(cleanup_queue),
                                                       shared_sessions, alive)
            /\ cleanup_queue' = Tail(cleanup_queue)
            /\ UNCHANGED call
       ELSE /\ call' = [call EXCEPT !.cleaner = "exited"]
            /\ UNCHANGED <<shared_sessions, cleanup_queue>>
    /\ UNCHANGED <<sessions, pid_to_session, session_cache>>
    /\ ShutdownFrame

NextShutdown ==
    \/ ProducerSend
    \/ ProducerExit
    \/ CoordinatorRecv
    \/ TimerSend
    \/ CleanerRecv

\* Every thread that can run does run.
SpecShutdown ==
    /\ InitShutdown
    /\ [][NextShutdown]_vars
    /\ WF_vars(CoordinatorRecv)
    /\ WF_vars(TimerSend)
    /\ WF_vars(CleanerRecv)

\* C19: once the producers are gone and no other sender of the event
\* channel is left, the Coordinator leaves its loop; and once the
\* Coordinator has left its loop, the cleaner thread and its timer thread
\* end.
C19_OrderlyShutdown ==
    /\ (call.producers = {} /\ ~call.event_sender_kept)
          ~> (call.coordinator = "exited")
    /\ (call.coordinator = "exited")
          ~> (call.cleaner = "exited" /\ call.timer = "exited")

(***************************************************************************)
(* monitor/cpu.rs: the scans of the ProcessScanner and what each of them   *)
(* publishes.                                                              *)
(***************************************************************************)
MaxScans == 3

\* The claude processes ps can list, and the CPU readings taken of them.
ClaudePids == {12345}
CpuReadings == {10, 30, 50, 70, 250}

ChangeThreshold == 30
WorkingThreshold == 50

Abs(x) == IF x < 0 THEN 0 - x ELSE x

\* cpu_changed_significantly: <<returned flag, last_cpu afterwards>>
cpu_changed_significantly(pid, new_cpu, last_cpu) ==
    LET prev == IF pid \in DOMAIN last_cpu THEN last_cpu[pid] ELSE 0
        changed == \/ Abs(new_cpu - prev) > ChangeThreshold
                   \/ prev < WorkingThreshold /\ new_cpu >= WorkingThreshold
                   \/ prev >= WorkingThreshold /\ new_cpu < WorkingThreshold
    IN  IF changed THEN <<TRUE, MapInsert(last_cpu, pid, new_cpu)>>
        ELSE <<FALSE, last_cpu>>

\* The body of the loop over the pids of one scan, for one pid: whether a
\* CpuEvent is sent, and the two maps afterwards.
ScanPid(pid, cpu, is_zombie, last_cpu, last_zombie_check) ==
    LET zombie_changed ==
            (IF pid \in DOMAIN last_zombie_check THEN last_zombie_check[pid]
             ELSE FALSE) # is_zombie
        is_new_pid == pid \notin DOMAIN last_cpu
        r == cpu_changed_significantly(pid, cpu, last_cpu)
    IN  IF zombie_changed
        THEN [sends |-> TRUE, last_cpu |-> last_cpu,
              last_zombie_check |-> MapInsert(last_zombie_check, pid, is_zombie)]
        ELSE IF is_new_pid
        THEN [sends |-> TRUE, last_cpu |-> last_cpu,
              last_zombie_check |-> last_zombie_check]
        ELSE [sends |-> r[1], last_cpu |-> r[2],
              last_zombie_check |-> last_zombie_check]

\* adaptive_interval: the sleep in milliseconds, from the largest value of
\* last_cpu (0.0 for an empty map).
adaptive_interval(last_cpu) ==
    LET max_cpu == IF DOMAIN last_cpu = {} THEN 0
                   ELSE CHOOSE v \in {last_cpu[p] : p \in DOMAIN last_cpu} :
                            \A p \in DOMAIN last_cpu : last_cpu[p] <= v
    IN  IF max_cpu > 200 THEN 500
        ELSE IF max_cpu > 50 THEN 1000
        ELSE 2000

\* What ps and sysinfo report in one scan: for each process listed, its
\* CPU reading and its zombie flag.
ScanReadings ==
    UNION {[ps -> [cpu : CpuReadings, is_zombie : BOOLEAN]] : ps \in SUBSET ClaudePids}

InitScan ==
    /\ Idle
    /\ call = [fn |-> "scan", scans |-> 0,
               last_cpu |-> EmptyMap, last_zombie_check |-> EmptyMap,
               readings |-> EmptyMap,     \* what the last scan observed
               interval |-> 0,            \* the sleep that ended the last scan
               published |-> EmptyMap,    \* the CpuEvents the last scan sent
               baseline |-> EmptyMap,     \* pid -> CPU value published last
               flags |-> EmptyMap,        \* pid -> zombie flag computed last
               baseline_before |-> EmptyMap, flags_before |-> EmptyMap]

\* One iteration of the loop of run_cpu_monitor.
Scan ==
    /\ call.fn = "scan"
    /\ call.scans < MaxScans
    /\ \E rd \in ScanReadings :
         LET res == [p \in DOMAIN rd |->
                        ScanPid(p, rd[p].cpu, rd[p].is_zombie,
                                call.last_cpu, call.last_zombie_check)]
             sent == {p \in DOMAIN rd : res[p].sends}
             last_cpu ==
                    [p \in DOMAIN call.last_cpu
                           \cup UNION {DOMAIN res[q].last_cpu : q \in DOMAIN rd} |->
                        IF p \in DOMAIN rd THEN res[p].last_cpu[p]
                        ELSE call.last_cpu[p]]
         IN  call' = [call EXCEPT
                !.scans = @ + 1,
                !.readings = rd,
                !.last_cpu = last_cpu,
                !.interval = adaptive_interval(last_cpu),
                !.last_zombie_check =
                    [p \in DOMAIN call.last_zombie_check
                           \cup UNION {DOMAIN res[q].last_zombie_check :
                                         q \in DOMAIN rd} |->
                        IF p \in DOMAIN rd THEN res[p].last_zombie_check[p]
                        ELSE call.last_zombie_check[p]],
                !.published =
                    [p \in sent |-> [pid |-> p, timestamp |-> now,
                                     cpu_percent |-> rd[p].cpu]],
                !.baseline =
                    [p \in DOMAIN call.baseline \cup sent |->
                        IF p \in sent THEN rd[p].cpu ELSE call.baseline[p]],
                !.flags =
                    [p \in DOMAIN call.flags \cup DOMAIN rd |->
                        IF p \in DOMAIN rd THEN rd[p].is_zombie ELSE call.flags[p]],
                !.baseline_before = call.baseline,
                !.flags_before = call.flags]
    /\ UNCHANGED IdleVars

SpecScan == InitScan /\ [][Scan]_vars

\* The reading new neither differs from the published value old by more
\* than 3 points nor lies on the other side of the 5 % threshold.
Insignificant(old, new) ==
    /\ Abs(new - old) <= 30
    /\ (old < 50) = (new < 50)

\* C20: a scan publishes no CpuEvent for a pid that had one published in an
\* earlier scan, when its reading is insignificant against the value
\* published last and its zombie flag is the one of the previous scan.
C20_InsignificantNotPublished ==
    call.fn = "scan" =>
        \A p \in DOMAIN call.readings :
            (/\ p \in DOMAIN call.baseline_before
             /\ p \in DOMAIN call.flags_before
             /\ Insignificant(call.baseline_before[p], call.readings[p].cpu)
             /\ call.readings[p].is_zombie = call.flags_before[p])
            => p \notin DOMAIN call.published

(***************************************************************************)
(* monitor/log.rs: the event loop of the LogWatcher and its debounce.      *)
(***************************************************************************)
MaxNotifications == 3

DebounceMs == 200
MsPerSec == 1000

\* The files that change, by the session id extract_session_id reads off
\* their names, and the time that passes between two change notifications.
WatchedIds == {U1, FillerId(1)}
NotifyDelaysMs == {100, 300, 900}
WatchStartMs == 10000

\* current_timestamp() at wall-clock time ms: whole seconds.
TimestampAt(ms) == ms \div MsPerSec

\* The debounce test made on a notification for session_id at time t:
\* TRUE when the notification is skipped.
Debounced(last_processed, session_id, t) ==
    LET last_time == IF session_id \in DOMAIN last_processed
                     THEN last_processed[session_id] ELSE 0
        elapsed_ms == (t - last_time) * MsPerSec
    IN  elapsed_ms < DebounceMs

InitWatch ==
    /\ Idle
    /\ call = [fn |-> "watch", count |-> 0, clock_ms |-> WatchStartMs,
               last_processed |-> EmptyMap,
               session_id |-> "", outcome |-> "none",
               published_ms |-> EmptyMap,   \* id -> time of its last LogEvent
               published_before |-> EmptyMap]

\* The loop body for one Modify(Data) notification with one path; readable
\* says whether analyze_log_file returns Ok.
Notify ==
    /\ call.fn = "watch"
    /\ call.count < MaxNotifications
    /\ \E d \in NotifyDelaysMs, id \in WatchedIds, readable \in BOOLEAN :
         LET ms == call.clock_ms + d
             t == TimestampAt(ms)
             skip == Debounced(call.last_processed, id, t)
             sends == ~skip /\ readable
         IN  call' = [call EXCEPT
                !.count = @ + 1,
                !.clock_ms = ms,
                !.session_id = id,
                !.outcome = IF skip THEN "debounced"
                            ELSE IF readable THEN "published" ELSE "unreadable",
                !.last_processed =
                    IF sends THEN MapInsert(@, id, t) ELSE @,
                !.published_ms =
                    IF sends THEN MapInsert(@, id, ms) ELSE @,
                !.published_before = call.published_ms]
    /\ UNCHANGED IdleVars

SpecWatch == InitWatch /\ [][Notify]_vars

\* C21: the notification just handled was dropped by the debounce exactly
\* when a LogEvent had been published for its id less than 200 ms earlier.
C21_DebounceWindow ==
    (call.fn = "watch" /\ call.outcome # "none") =>
        ((call.outcome = "debounced")
         <=> /\ call.session_id \in DOMAIN call.published_before
             /\ call.clock_ms - call.published_before[call.session_id] < 200)

(***************************************************************************)
(* hooks/receiver.rs: the lines read from the named pipe.                  *)
(***************************************************************************)
MaxLines == 3

\* The text of a one-line JSON object with the two required fields.
JsonLine(sid, evt) ==
    "{\"sid\":\"" \o sid \o "\",\"evt\":\"" \o evt \o "\"}"

PipeSids == {"", "$SESSION_ID", U1, "PID-12345", "PID-7", "PID-x",
             "PID-99999999999"}
PipeEvts == {"start", "killed"}

\* An object cut in two by a line break, a line that is no JSON at all,
\* and a line of blanks.
\* An object with a field the struct does not name (serde ignores it),
\* and its head when a line break cuts it after the inner object.
JsonLineCtx(sid, evt) ==
    "{\"sid\":\"" \o sid \o "\",\"ctx\":{},\"evt\":\"" \o evt \o "\"}"

NestedHead == "{\"sid\":\"PID-12345\",\"ctx\":{},"

FragmentHead == "{\"sid\":\"PID-12345\","
FragmentTail == "\"evt\":\"killed\"}"
GarbageLine == "oops"
BlankLine == "  "

PipeLines ==
    {JsonLine(sid, evt) : sid \in PipeSids, evt \in PipeEvts}
    \cup {FragmentHead, FragmentTail, NestedHead, GarbageLine, BlankLine}

\* str::contains(char)
Contains(str, c) == \E i \in 1..Len(str) : SubSeq(str, i, i) = c

\* line.trim().is_empty()
IsBlank(str) == \A i \in 1..Len(str) : SubSeq(str, i, i) = " "

\* serde_json::from_str on the buffer: the object the text denotes, if it
\* is the text of one object with string fields sid and evt.
from_str(buffer) ==
    LET objs == {o \in [sid : PipeSids, evt : PipeEvts] :
                    \/ buffer = JsonLine(o.sid, o.evt)
                    \/ buffer = JsonLineCtx(o.sid, o.evt)}
    IN  IF objs = {} THEN NoneOpt ELSE Some(CHOOSE o \in objs : TRUE)

Digits == <<"0", "1", "2", "3", "4", "5", "6", "7", "8", "9">>

IsDigit(c) == \E d \in 1..10 : Digits[d] = c

DigitValue(c) == (CHOOSE d \in 1..10 : Digits[d] = c) - 1

RECURSIVE DecimalValue(_)
DecimalValue(str) ==
    IF str = "" THEN 0
    ELSE 10 * DecimalValue(SubSeq(str, 1, Len(str) - 1))
         + DigitValue(SubSeq(str, Len(str), Len(str)))

RECURSIVE StripZeros(_)
StripZeros(str) ==
    IF Len(str) > 1 /\ SubSeq(str, 1, 1) = "0"
    THEN StripZeros(SubSeq(str, 2, Len(str))) ELSE str

\* str::parse::<u32>: an optional +, then decimal digits of a number below
\* 2^32.
ParseU32(str) ==
    LET body == IF StartsWith(str, "+") THEN SubSeq(str, 2, Len(str)) ELSE str
        digits == StripZeros(body)
    IN  IF body = "" \/ \E i \in 1..Len(body) : ~IsDigit(SubSeq(body, i, i))
        THEN NoneOpt
        ELSE IF Len(digits) < 10 THEN Some(DecimalValue(digits))
        ELSE IF Len(digits) > 10 THEN NoneOpt
        ELSE IF DecimalValue(digits) >= 65536 * 65536 THEN NoneOpt
        ELSE Some(DecimalValue(digits))

\* The pid of a "killed" event, when the buffer holds one.
KilledPid(buffer) ==
    LET v == from_str(buffer)
    IN  IF IsSome(v) /\ Unwrap(v).evt = "killed"
           /\ StartsWith(Unwrap(v).sid, "PID-")
        THEN ParseU32(SubSeq(Unwrap(v).sid, 5, Len(Unwrap(v).sid)))
        ELSE NoneOpt

\* Variant of IsInvalidSid that tests for the empty id only.
IsInvalidSid_OnlyEmpty(sid) == sid = ""

\* The filter on the session id of a parsed HookEvent.
IsInvalidSid(sid) == sid = "$SESSION_ID" \/ sid = ""

send_zombie_killed_notification(pid) == [topic |-> "zombie-killed", pid |-> pid]

InitPipe ==
    /\ Idle
    /\ call = [fn |-> "pipe", lines |-> 0, buffer |-> "",
               events_received |-> 0, parse_errors |-> 0,
               line |-> "", buffer_before |-> "",
               forwarded |-> <<>>,   \* HookEvents the last line sent
               notified |-> <<>>]    \* notifications the last line raised

\* The loop body of run_receiver_session for one line read from the pipe.
ReadLine ==
    /\ call.fn = "pipe"
    /\ call.lines < MaxLines
    /\ \E line \in PipeLines :
         LET buffer == call.buffer \o line
             killed == KilledPid(buffer)
             parsed == from_str(buffer)
             seen == [call EXCEPT !.lines = @ + 1, !.line = line,
                                  !.buffer_before = call.buffer,
                                  !.forwarded = <<>>, !.notified = <<>>]
         IN  call' =
               IF IsBlank(line) THEN seen
               ELSE IF IsSome(killed)
                    THEN [seen EXCEPT
                            !.buffer = "", !.events_received = @ + 1,
                            !.notified =
                                <<send_zombie_killed_notification(Unwrap(killed))>>]
               ELSE IF IsSome(parsed)
                    THEN [seen EXCEPT
                            !.buffer = "", !.events_received = @ + 1,
                            !.forwarded =
                                IF IsInvalidSid(Unwrap(parsed).sid) THEN <<>>
                                ELSE <<Unwrap(parsed)>>]
               ELSE IF Contains(buffer, "{") /\ ~Contains(buffer, "}")
                    THEN [seen EXCEPT !.buffer = buffer]
               ELSE [seen EXCEPT !.buffer = "", !.parse_errors = @ + 1]
    /\ UNCHANGED IdleVars

SpecPipe == InitPipe /\ [][ReadLine]_vars

\* The pids named by the killed lines written to the pipe.
KilledPids == {12345, 7}

KilledLine(n) == JsonLine("PID-" \o ToString(n), "killed")

NoInvalidSidForwarded ==
    \A i \in 1..Len(call.forwarded) :
        call.forwarded[i].sid # "" /\ call.forwarded[i].sid # "$SESSION_ID"

IndexedTarget(op) == pid_to_session[op.ev.pid]

\* C23: after a Cpu step for the pid of a live process that is in the index,
\* made with the process table unchanged, the target session's status is
\* what decide_status yields for the session as the event updated it.
C23_CpuStepRedecides ==
    [][(/\ last'.op = "Cpu"
        /\ StableTables
        /\ is_process_alive(alive, last'.ev.pid)
        /\ last'.ev.pid \in DOMAIN pid_to_session
        /\ IndexedTarget(last') \in DOMAIN sessions
        /\ IndexedTarget(last') \in DOMAIN sessions')
       => LET sid == IndexedTarget(last')
              updated == [sessions'[sid] EXCEPT
                            !.current_status = sessions[sid].current_status]
          IN  sessions'[sid].current_status
                = decide_status(updated, now, alive, notty)]_vars

\* C24: a Coordinator step, made with the process table unchanged, that
\* leaves a session with a status other than the working, resting or zombie
\* it had before emits exactly one session-status-changed for it, carrying
\* the new status.
C24_StatusChangeIsEmitted ==
    [][\A sid \in DOMAIN sessions \cap DOMAIN sessions' :
          (/\ last'.op \in CoordinatorOps
           /\ StableTables
           /\ sessions[sid].current_status \in VisibleStatuses
           /\ sessions'[sid].current_status # sessions[sid].current_status)
          => /\ CountEvents(emitted', "session-status-changed", sid) = 1
             /\ \E i \in 1..Len(emitted') :
                   emitted'[i] = [topic |-> "session-status-changed", sid |-> sid,
                                  status |-> sessions'[sid].current_status]]_vars

\* The Hook step just taken handled an end event and removed session sid.
HookEndRemoved(sid) ==
    /\ last.op = "Hook"
    /\ last.ev.evt = "end"
    /\ last.ev.sid = sid
    /\ sid \notin DOMAIN sessions
    /\ CountEvents(emitted, "session-terminated", sid) = 1

\* C25: a Log or Cpu step that follows the removal of a session by a Hook
\* end event, made with the process table unchanged, does not put the
\* session back into the table.
C25_EndedSessionStaysOut ==
    [][\A sid \in SessionIds :
          (/\ HookEndRemoved(sid)
           /\ last'.op \in {"Log", "Cpu"}
           /\ StableTables)
          => sid \notin DOMAIN sessions']_vars

\* C26: a Hook start, working or resting step applied to a session without
\* terminal leaves it zombie.
C26_NoTerminalIsZombie ==
    [][\A sid \in DOMAIN sessions \cap DOMAIN sessions' :
          (/\ last'.op = "Hook"
           /\ last'.ev.sid = sid
           /\ last'.ev.evt \in {"start", "working", "resting"}
           /\ ~sessions[sid].has_terminal
           /\ ~sessions'[sid].has_terminal)
          => sessions'[sid].current_status = "zombie"]_vars

\* The sessions of the snapshot a cleanup event is aimed at.
CleanupTargets(ev, shared) ==
    CASE ev.kind = "ProcessTerminated" ->
            {k \in DOMAIN shared : shared[k].pid = ev.pid}
      [] ev.kind = "SessionBecameZombie" -> DOMAIN shared \cap {ev.sid}
      [] OTHER -> DOMAIN shared

\* C27: a cleaner step on ProcessTerminated, SessionBecameZombie or
\* CheckDeadSessions removes from the snapshot exactly the sessions the
\* event is aimed at that have a non-zero pid whose process is gone.
C27_DeadPidCleanupsRemoveDeadOnly ==
    [][(last'.op = "Cleaner" /\ last'.ev.kind \in DeadPidCleanups)
       => last'.removed =
            {k \in CleanupTargets(last'.ev, shared_sessions) :
                /\ shared_sessions[k].pid # 0
                /\ shared_sessions[k].pid \notin alive}]_vars

\* C28: a cleaner step on CleanupZombies removes a session whose id does
\* not start with pid- exactly when the session is zombie and has a non-zero
\* pid whose process is gone.
C28_CleanupZombiesRemovesExactly ==
    [][(last'.op = "Cleaner" /\ last'.ev.kind = "CleanupZombies")
       => \A k \in DOMAIN shared_sessions :
             ~StartsWith(k, "pid-")
             => (k \in last'.removed
                 <=> /\ shared_sessions[k].current_status = "zombie"
                     /\ shared_sessions[k].pid # 0
                     /\ shared_sessions[k].pid \notin alive)]_vars

\* C29: a cleaner step adds no key to the shared snapshot and leaves every
\* session that stays in it as it was.
C29_CleanerOnlyRemoves ==
    [][last'.op = "Cleaner"
       => /\ DOMAIN shared_sessions' \subseteq DOMAIN shared_sessions
          /\ \A k \in DOMAIN shared_sessions' :
                shared_sessions'[k] = shared_sessions[k]]_vars

\* C29 witness: a cleaner step has removed a session whose process is gone
\* and has left another session in the snapshot.
C29_Witness ==
    /\ last.op = "Cleaner"
    /\ last.ev.kind = "CheckDeadSessions"
    /\ last.removed # {}
    /\ shared_sessions # EmptyMap

(***************************************************************************)
(* One iteration of the event loop on a Hook start event, for any id the   *)
(* HookReceiver forwards.                                                  *)
(***************************************************************************)
SliceLen == 8

\* &session_id[..8] panics on an id shorter than 8 bytes.
SlicePanics(session_id) == Len(session_id) < SliceLen

\* The start arm of handle_hook_event slices the id when it creates the
\* session and when upgrade_to_hook returns true.
HookStartPanics(session_id, sess) ==
    LET is_new == session_id \notin DOMAIN sess
        session == IF is_new THEN new_hook(session_id, 0) ELSE sess[session_id]
    IN  SlicePanics(session_id) /\ (is_new \/ upgrade_to_hook(session)[1])

\* The ids of start events: the HookReceiver forwards every id that is not
\* empty and not $SESSION_ID.
StartIds == {id \in UpgradeIds \cup {"abc"} : ~IsInvalidSid(id)}

\* The tables a start event meets: no session, or one session.
StartTables ==
    {EmptyTables}
    \cup {[sessions |-> (s.session_id :> s), pid_to_session |-> EmptyMap,
           shared_sessions |-> (s.session_id :> s), session_cache |-> EmptyMap] :
            s \in {x \in UpgradeSessions : ~IsInvalidSid(x.session_id)}}

InitStart ==
    /\ Idle
    /\ call \in {[fn |-> "start", before |-> st, sid |-> sid, done |-> FALSE,
                  panicked |-> FALSE, after |-> st, emitted |-> <<>>] :
                    st \in StartTables, sid \in StartIds}

\* The Coordinator handles the start event; a panic unwinds the thread and
\* leaves the tables as they were.
StartCall ==
    /\ call.fn = "start"
    /\ ~call.done
    /\ call' =
         IF HookStartPanics(call.sid, call.before.sessions)
         THEN [call EXCEPT !.done = TRUE, !.panicked = TRUE]
         ELSE LET r == StepHook(call.before,
                                [sid |-> call.sid, evt |-> "start"], now)
              IN  [call EXCEPT
                     !.done = TRUE,
                     !.after = [sessions |-> r.sessions,
                                pid_to_session |-> r.pid_to_session,
                                shared_sessions |-> r.shared_sessions,
                                session_cache |-> r.session_cache],
                     !.emitted = r.emitted]
    /\ UNCHANGED IdleVars

SpecStart == InitStart /\ [][StartCall]_vars

\* C30: after a Hook start event for id S the table holds S resting; one
\* session-created is emitted for S if S was not in the table and none if
\* it was; a newly created S is of Hook origin with pid 0.
C30_StartCreatesResting ==
    (call.fn = "start" /\ call.done) =>
        LET S == call.sid
            is_new == S \notin DOMAIN call.before.sessions
        IN  /\ S \in DOMAIN call.after.sessions
            /\ call.after.sessions[S].current_status = "resting"
            /\ CountEvents(call.emitted, "session-created", S)
                 = IF is_new THEN 1 ELSE 0
            /\ is_new => /\ call.after.sessions[S].session_type = "Hook"
                         /\ call.after.sessions[S].pid = 0

(***************************************************************************)
(* The producer threads and their sends on the MonitorEvent channel, the   *)
(* Coordinator dropping its Receiver when it leaves its loop.              *)
(***************************************************************************)
MaxSends == 2

\* What a producer does when Sender::send returns Err: run_cpu_monitor
\* returns; run_receiver_session returns Ok, which ends the thread's loop;
\* run_log_watcher breaks out of `for path in paths` and stays in its
\* event loop.
AfterSendError(p) ==
    CASE p = "scanner" -> "exited"
      [] p = "receiver" -> "exited"
      [] p = "watcher" -> "running"

InitSenders ==
    /\ Idle
    /\ call = [fn |-> "senders", receiver_dropped |-> FALSE,
               thread |-> [p \in Producers |-> "running"],
               sent |-> [p \in Producers |-> 0],     \* sends that returned Ok
               failed |-> [p \in Producers |-> 0]]   \* sends that returned Err

\* The Coordinator leaves its loop and its Receiver is dropped.
CoordinatorExit ==
    /\ call.fn = "senders"
    /\ ~call.receiver_dropped
    /\ call' = [call EXCEPT !.receiver_dropped = TRUE]
    /\ UNCHANGED IdleVars

\* A producer has an event to publish and calls send.
ProducerAttempt ==
    /\ call.fn = "senders"
    /\ \E p \in Producers :
         /\ call.thread[p] = "running"
         /\ call.sent[p] + call.failed[p] < MaxSends
         /\ call' = IF call.receiver_dropped
                    THEN [call EXCEPT !.failed[p] = @ + 1,
                                      !.thread[p] = AfterSendError(p)]
                    ELSE [call EXCEPT !.sent[p] = @ + 1]
    /\ UNCHANGED IdleVars

SpecSenders == InitSenders /\ [][CoordinatorExit \/ ProducerAttempt]_vars

\* C31: a producer whose send has failed, the Coordinator's Receiver being
\* dropped, has left its loop.
C31_ProducersStopOnSendError ==
    call.fn = "senders" =>
        \A p \in Producers : call.failed[p] > 0 => call.thread[p] = "exited"

(***************************************************************************)
(* The two mutexes and the steps taken while they are held: the session   *)
(* cache in the unknown-pid branch of handle_cpu_event, the shared         *)
(* snapshot in run_coordinator's merge and in the cleaner's                *)
(* check_and_cleanup_dead_sessions.                                        *)
(***************************************************************************)
MaxCpuEvents == 2

\* Positions of the Coordinator at which it reads the debug directory
\* (read_dir, grep, metadata) and of the cleaner at which it refreshes the
\* process table (is_process_alive).
CoordinatorIoPositions == {"scan"}
CleanerIoPositions == {"probe"}

InitLocks ==
    /\ Idle
    /\ \E live \in SUBSET Pids, pids \in SUBSET (Pids \cup {0}) :
         call = [fn |-> "locks",
                 cache_owner |-> "none", shared_owner |-> "none",
                 coord_pc |-> "recv", clean_pc |-> "recv",
                 events |-> 0, pid |-> 0,
                 cache |-> {},              \* pids with a cached session id
                 live |-> live,             \* pids the OS still has
                 shared |-> pids,           \* pids of the snapshot's sessions
                 pending |-> {}, probed |-> 0, dead |-> {}]

\* core.rs 323: `session_cache.lock().unwrap()` is a temporary of the let
\* statement; the guard lives until find_session_id_for_pid has returned.
CoordinatorLockCache ==
    /\ call.fn = "locks"
    /\ call.coord_pc = "recv"
    /\ call.events < MaxCpuEvents
    /\ call.cache_owner = "none"
    /\ \E pid \in Pids :
         call' = [call EXCEPT !.cache_owner = "coordinator", !.pid = pid,
                              !.events = @ + 1, !.coord_pc = "lookup"]
    /\ UNCHANGED IdleVars

\* finder.rs 31-33: the cache is consulted first.
CoordinatorCacheLookup ==
    /\ call.fn = "locks"
    /\ call.coord_pc = "lookup"
    /\ call' = [call EXCEPT !.coord_pc =
                   IF call.pid \in call.cache THEN "return" ELSE "scan"]
    /\ UNCHANGED IdleVars

\* finder.rs 37-135: read_dir over the debug directory, one grep per file,
\* the match is cached.
CoordinatorScanDir ==
    /\ call.fn = "locks"
    /\ call.coord_pc = "scan"
    /\ \E found \in BOOLEAN :
         call' = [call EXCEPT !.coord_pc = "return",
                              !.cache = IF found THEN @ \cup {call.pid} ELSE @]
    /\ UNCHANGED IdleVars

\* End of the let statement: the guard is dropped.
CoordinatorUnlockCache ==
    /\ call.fn = "locks"
    /\ call.coord_pc = "return"
    /\ call' = [call EXCEPT !.cache_owner = "none", !.coord_pc = "merge"]
    /\ UNCHANGED IdleVars

\* run_coordinator 77-99: the merge block takes the snapshot lock, inserts
\* the local sessions and releases it at the end of the block.
CoordinatorMerge ==
    /\ call.fn = "locks"
    /\ \/ /\ call.coord_pc = "merge"
          /\ call.shared_owner = "none"
          /\ call' = [call EXCEPT !.shared_owner = "coordinator",
                                  !.coord_pc = "merging"]
       \/ /\ call.coord_pc = "merging"
          /\ call' = [call EXCEPT !.shared_owner = "none",
                                  !.shared = @ \cup {call.pid},
                                  !.coord_pc = "recv"]
    /\ UNCHANGED IdleVars

\* cleaner.rs 143: the guard is bound to `sessions` for the whole function.
CleanerLockShared ==
    /\ call.fn = "locks"
    /\ call.clean_pc = "recv"
    /\ call.shared_owner = "none"
    /\ call.shared # {}
    /\ call' = [call EXCEPT !.shared_owner = "cleaner", !.clean_pc = "iterate",
                            !.pending = call.shared, !.dead = {}]
    /\ UNCHANGED IdleVars

\* cleaner.rs 146-150: next session of the iteration; pid 0 is skipped.
CleanerNextSession ==
    /\ call.fn = "locks"
    /\ call.clean_pc = "iterate"
    /\ \E pid \in call.pending :
         call' = [call EXCEPT !.pending = @ \ {pid}, !.probed = pid,
                              !.clean_pc = IF pid = 0 THEN "iterate" ELSE "probe"]
    /\ UNCHANGED IdleVars

\* cleaner.rs 152-156: is_process_alive refreshes the process table.
CleanerProbe ==
    /\ call.fn = "locks"
    /\ call.clean_pc = "probe"
    /\ call' = [call EXCEPT !.clean_pc = "iterate",
                            !.dead = IF call.probed \in call.live
                                     THEN @ ELSE @ \cup {call.probed}]
    /\ UNCHANGED IdleVars

\* cleaner.rs 159-168: the dead sessions are removed, the function returns
\* and the guard is dropped.
CleanerRemoveAndUnlock ==
    /\ call.fn = "locks"
    /\ call.clean_pc = "iterate"
    /\ call.pending = {}
    /\ call' = [call EXCEPT !.shared = @ \ call.dead, !.shared_owner = "none",
                            !.clean_pc = "recv", !.probed = 0]
    /\ UNCHANGED IdleVars

\* A process exits.
LocksProcessExit ==
    /\ call.fn = "locks"
    /\ \E pid \in call.live : call' = [call EXCEPT !.live = @ \ {pid}]
    /\ UNCHANGED IdleVars

NextLocks ==
    \/ CoordinatorLockCache
    \/ CoordinatorCacheLookup
    \/ CoordinatorScanDir
    \/ CoordinatorUnlockCache
    \/ CoordinatorMerge
    \/ CleanerLockShared
    \/ CleanerNextSession
    \/ CleanerProbe
    \/ CleanerRemoveAndUnlock
    \/ LocksProcessExit

SpecLocks == InitLocks /\ [][NextLocks]_vars

\* C32: no thread is reading the debug directory or probing a process
\* while it holds a mutex: the Coordinator does not own the cache lock
\* during the directory scan, the cleaner does not own the snapshot lock
\* during the liveness probe.
C32_NoIoUnderLock ==
    call.fn = "locks" =>
        /\ ~(call.coord_pc \in CoordinatorIoPositions
             /\ call.cache_owner = "coordinator")
        /\ ~(call.clean_pc \in CleanerIoPositions
             /\ call.shared_owner = "cleaner")

(***************************************************************************)
(* The line buffer of run_receiver_session, under SpecPipe.                *)
(***************************************************************************)
Count(str, c) == Cardinality({i \in 1..Len(str) : SubSeq(str, i, i) = c})

\* More objects opened than closed: the text read so far is the head of
\* an object whose end has not arrived.
Unclosed(str) == Count(str, "{") > Count(str, "}")

\* C33: for every line read, with the text the line is appended to: text
\* that does not parse and has more opening than closing braces is kept
\* for the next line, the counters unchanged; the buffer is empty after a
\* parse; text that does not parse and is not kept leaves the buffer
\* empty and adds one to parse_errors, and parse_errors changes in no
\* other step.
C33_BufferDiscipline ==
    [][call.fn = "pipe" =>
        LET line == call'.line
            buffer == call.buffer \o line
            parsed == IsSome(from_str(buffer))
            discarded == ~IsBlank(line) /\ ~parsed /\ call'.buffer # buffer
        IN  /\ (~IsBlank(line) /\ ~parsed /\ Unclosed(buffer))
                  => /\ call'.buffer = buffer
                     /\ call'.parse_errors = call.parse_errors
            /\ (~IsBlank(line) /\ parsed) => call'.buffer = ""
            /\ discarded => /\ call'.buffer = ""
                            /\ call'.parse_errors = call.parse_errors + 1
            /\ call'.parse_errors # call.parse_errors => discarded
    ]_vars

\* C33 without its first part: what holds of every line read.
C33_ParseAndDiscard ==
    [][call.fn = "pipe" =>
        LET line == call'.line
            buffer == call.buffer \o line
            parsed == IsSome(from_str(buffer))
            discarded == ~IsBlank(line) /\ ~parsed /\ call'.buffer # buffer
        IN  /\ (~IsBlank(line) /\ parsed) => call'.buffer = ""
            /\ discarded => /\ call'.buffer = ""
                            /\ call'.parse_errors = call.parse_errors + 1
            /\ call'.parse_errors # call.parse_errors => discarded
    ]_vars

\* C34: a line that is a whole hook object with a session's id is forwarded
\* once, as the HookEvent it spells, whatever text the lines before it left
\* in the buffer.
C34_WellFormedLineForwarded ==
    call.fn = "pipe" =>
        (call.line = JsonLine(U1, "start")
            => call.forwarded = <<[sid |-> U1, evt |-> "start"]>>)

(***************************************************************************)
(* The named pipe between the hook processes and the HookReceiver:        *)
(* run_receiver_with_recovery, ensure_pipe_healthy, run_receiver_session   *)
(* and recreate_pipe on one side, `echo '..' > /tmp/claudeminer_pipe` on   *)
(* the other.  Opening a FIFO blocks until the other end is opened; a read *)
(* blocks while a writer holds the FIFO and returns end-of-file when none  *)
(* does; a write without a reader fails; the bytes in the FIFO are dropped *)
(* when its last descriptor is closed.                                     *)
(***************************************************************************)
MaxWriters == 5

ReadTimeoutSecs == 60
MaxReconnectAttempts == 5

\* Seconds since last_activity at which the model looks at the session.
IdleLevels == {0, 30, 61, 90}

\* A hook process holds the FIFO open for writing.
WriterHolds == call.wpc \in {"write", "close"} /\ ~call.detached

\* A hook process is blocked in open() on the FIFO.
WriterWaiting == call.wpc = "open" /\ ~call.detached /\ call.path = "fifo"

InitFifo ==
    /\ Idle
    /\ call = [fn |-> "fifo", rpc |-> "ensure", path |-> "fifo",
               reader_open |-> FALSE, wpc |-> "idle", detached |-> FALSE,
               writers |-> 0, fifo |-> 0, rbuf |-> 0, idle |-> 0,
               consecutive_failures |-> 0,
               read |-> 0,    \* lines the loop of a session has been given
               lost |-> 0]    \* lines no session will be given

\* The receiver closes its descriptor: BufReader's lines go with it, and
\* the FIFO's if no writer holds it.
CloseReader(c, next) ==
    [c EXCEPT !.reader_open = FALSE, !.rpc = next, !.rbuf = 0,
              !.fifo = IF WriterHolds THEN @ ELSE 0,
              !.lost = @ + c.rbuf + (IF WriterHolds THEN 0 ELSE c.fifo)]

\* open(path) for reading returns: a writer blocked in open() returns too.
OpenReader(c, next) ==
    [c EXCEPT !.reader_open = TRUE, !.rpc = next,
              !.wpc = IF WriterWaiting THEN "write" ELSE @]

\* A hook process runs `echo '..' > /tmp/claudeminer_pipe`.
WriterStart ==
    /\ call.fn = "fifo"
    /\ call.wpc = "idle"
    /\ call.writers < MaxWriters
    /\ call' = [call EXCEPT !.wpc = "open", !.writers = @ + 1]
    /\ UNCHANGED IdleVars

\* The shell's open returns: on a FIFO once a reader has it open, at once
\* on a regular file, which the redirection creates when the path is absent.
WriterOpened ==
    /\ call.fn = "fifo"
    /\ call.wpc = "open"
    /\ ~call.detached
    /\ IF call.path = "fifo"
       THEN /\ call.reader_open
            /\ call' = [call EXCEPT !.wpc = "write"]
       ELSE call' = [call EXCEPT !.wpc = "write", !.path = "file",
                                 !.detached = TRUE]
    /\ UNCHANGED IdleVars

\* echo writes its line.
WriterWrite ==
    /\ call.fn = "fifo"
    /\ call.wpc = "write"
    /\ call' = IF ~call.detached /\ call.reader_open
               THEN [call EXCEPT !.wpc = "close", !.fifo = @ + 1]
               ELSE [call EXCEPT !.wpc = "close", !.lost = @ + 1]
    /\ UNCHANGED IdleVars

\* The hook process exits.
WriterClose ==
    /\ call.fn = "fifo"
    /\ call.wpc = "close"
    /\ call' = [call EXCEPT
                  !.wpc = "idle", !.detached = FALSE,
                  !.fifo = IF call.detached \/ call.reader_open THEN @ ELSE 0,
                  !.lost = IF call.detached \/ call.reader_open THEN @
                           ELSE @ + call.fifo]
    /\ UNCHANGED IdleVars

\* ensure_pipe_healthy: an absent path is created, a path that is no FIFO
\* is replaced, a FIFO is opened for reading.
EnsurePipeHealthy ==
    /\ call.fn = "fifo"
    /\ call.rpc = "ensure"
    /\ IF call.path = "fifo"
       THEN /\ WriterHolds \/ WriterWaiting
            /\ call' = OpenReader(call, "probe")
       ELSE call' = [call EXCEPT !.path = "fifo", !.rpc = "session"]
    /\ UNCHANGED IdleVars

\* ensure_pipe_healthy: `Ok(_) => return Ok(())` drops the File it opened.
ProbeClose ==
    /\ call.fn = "fifo"
    /\ call.rpc = "probe"
    /\ call' = CloseReader(call, "session")
    /\ UNCHANGED IdleVars

\* run_receiver_session: open_pipe_robust, then last_activity = now.
SessionOpen ==
    /\ call.fn = "fifo"
    /\ call.rpc = "session"
    /\ WriterHolds \/ WriterWaiting
    /\ call' = [OpenReader(call, "read") EXCEPT !.idle = 0]
    /\ UNCHANGED IdleVars

\* reader.lines() yields a line: BufReader has taken what the FIFO held.
\* The loop body tests the timeout before it looks at the line.
SessionLine ==
    /\ call.fn = "fifo"
    /\ call.rpc = "read"
    /\ call.rbuf + call.fifo > 0
    /\ LET filled == IF call.rbuf > 0 THEN call
                     ELSE [call EXCEPT !.rbuf = call.fifo, !.fifo = 0]
       IN  call' = IF call.idle > ReadTimeoutSecs
                   THEN CloseReader(filled, "failed")
                   ELSE [filled EXCEPT !.rbuf = @ - 1, !.read = @ + 1,
                                       !.idle = 0]
    /\ UNCHANGED IdleVars

\* reader.lines() ends: no writer holds the FIFO (`Pipe closed`).
SessionEof ==
    /\ call.fn = "fifo"
    /\ call.rpc = "read"
    /\ call.rbuf + call.fifo = 0
    /\ ~WriterHolds
    /\ call' = CloseReader(call, "failed")
    /\ UNCHANGED IdleVars

\* run_receiver_with_recovery, Err arm: every max_reconnects-th failure
\* recreate_pipe removes the path.
Recover ==
    /\ call.fn = "fifo"
    /\ call.rpc = "failed"
    /\ call' = IF call.consecutive_failures + 1 >= MaxReconnectAttempts
               THEN [call EXCEPT
                       !.consecutive_failures = 0, !.rpc = "removed",
                       !.path = "none",
                       !.detached = @ \/ call.wpc # "idle",
                       !.fifo = 0, !.lost = @ + call.fifo]
               ELSE [call EXCEPT !.consecutive_failures = @ + 1,
                                 !.rpc = "ensure"]
    /\ UNCHANGED IdleVars

\* recreate_pipe after its sleep: create_named_pipe, which takes an
\* existing path for success.
RecreateCreate ==
    /\ call.fn = "fifo"
    /\ call.rpc = "removed"
    /\ call' = [call EXCEPT !.rpc = "ensure",
                            !.path = IF @ = "none" THEN "fifo" ELSE @]
    /\ UNCHANGED IdleVars

\* Time passes while the session waits in its read.
IdleTick ==
    /\ call.fn = "fifo"
    /\ call.rpc = "read"
    /\ \E t \in IdleLevels :
         /\ t > call.idle
         /\ call' = [call EXCEPT !.idle = t]
    /\ UNCHANGED IdleVars

ReceiverStep ==
    \/ EnsurePipeHealthy
    \/ ProbeClose
    \/ SessionOpen
    \/ SessionLine
    \/ SessionEof
    \/ Recover
    \/ RecreateCreate

NextFifo ==
    \/ WriterStart
    \/ WriterOpened
    \/ WriterWrite
    \/ WriterClose
    \/ ReceiverStep
    \/ IdleTick

\* The receiver thread runs whenever it is not blocked; nothing obliges a
\* hook process to start, to write or to exit.
SpecFifo == InitFifo /\ [][NextFifo]_vars /\ WF_vars(ReceiverStep)

\* C35: a session that has been given no line for more than 60 s ends (its
\* pipe is closed, to be opened again), whether or not a line arrives.
C35_IdleSessionReconnects ==
    (call.fn = "fifo" /\ call.rpc = "read" /\ call.idle > ReadTimeoutSecs)
        ~> (call.rpc # "read")

\* C36: no line a hook process writes is lost: each one is given to the
\* loop of a receiver session.
C36_NoLineLost ==
    call.fn = "fifo" => call.lost = 0

(***************************************************************************)
(* The sleep between two scans, under SpecScan.                            *)
(***************************************************************************)
\* The largest CPU reading of the processes the last scan observed.
MaxObserved ==
    IF DOMAIN call.readings = {} THEN 0
    ELSE CHOOSE v \in {call.readings[p].cpu : p \in DOMAIN call.readings} :
             \A p \in DOMAIN call.readings : call.readings[p].cpu <= v

\* C37: the sleep that ends a scan is 500 ms when the largest reading is
\* above 20 %, 1 s when it is above 5 %, and 2 s otherwise.
C37_AdaptiveCadence ==
    (call.fn = "scan" /\ call.scans > 0) =>
        call.interval = (IF MaxObserved > 200 THEN 500
                         ELSE IF MaxObserved > 50 THEN 1000
                         ELSE 2000)

\* What the scanner does: every scan ends with the 2 s sleep.
C37_AlwaysSlowest ==
    (call.fn = "scan" /\ call.scans > 0) => call.interval = 2000

(***************************************************************************)
(* The pid of a session, under Spec.                                       *)
(***************************************************************************)
\* C38: a step leaves the non-zero pid of every session that is in the
\* table before and after it as it was.
C38_PidNeverChanges ==
    [][\A sid \in DOMAIN sessions \cap DOMAIN sessions' :
          sessions[sid].pid # 0 => sessions'[sid].pid = sessions[sid].pid]_vars

\* A Cpu event for another pid has been resolved to a session that has a
\* non-zero pid: the index names the session under the event's pid, and
\* the session has kept its own.
C38_Witness ==
    /\ last.op = "Cpu"
    /\ \E sid \in DOMAIN sessions :
          /\ sessions[sid].pid # 0
          /\ sessions[sid].pid # last.ev.pid
          /\ last.ev.pid \in DOMAIN pid_to_session
          /\ pid_to_session[last.ev.pid] = sid

PIPE_PATH == "/tmp/claudeminer_pipe"

\* str::contains(&str)
ContainsStr(str, sub) ==
    \E i \in 1..(Len(str) - Len(sub) + 1) :
        SubSeq(str, i, i + Len(sub) - 1) = sub

create_hook_command(event_name) ==
    "echo '{\"sid\":\"$SESSION_ID\",\"evt\":\"" \o event_name \o "\"}' > "
        \o PIPE_PATH

\* The fields of HookEvents, with the event each is registered for.
HookEventsFields ==
    [SessionStart |-> "start", UserPromptSubmit |-> "working",
     Stop |-> "resting", SessionEnd |-> "end"]

\* A hook of the user's own, and a ClaudeMiner hook of an earlier version.
OwnHook == [hook_type |-> "command", command |-> "say done"]
OldMinerHook ==
    [hook_type |-> "command", command |-> "echo old > " \o PIPE_PATH]

\* The lists of entries a category of the file may hold.
ConfigLists ==
    {<<>>,
     <<[matcher |-> "Bash", hooks |-> <<OwnHook>>]>>,
     <<[matcher |-> "*", hooks |-> <<OldMinerHook, OwnHook>>]>>}

\* The categories a "hooks" object of the file may have.
CategorySets ==
    {DOMAIN HookEventsFields, DOMAIN HookEventsFields \cup {"PreToolUse"},
     {"SessionStart"}}

SettingsFiles ==
    [hooks : {NoneOpt}
             \cup {Some(f) : f \in UNION {[D -> ConfigLists] : D \in CategorySets}},
     other : {EmptyMap, [k \in {"model"} |-> "opus"]}]

\* read_settings: serde_json::from_str::<ClaudeSettings>.  `hooks` has a
\* serde default; the four fields of HookEvents have none and are
\* required once the object is there; keys HookEvents does not name are
\* skipped; the other top-level keys are gathered by the flattened `other`.
read_settings(file) ==
    IF ~IsSome(file.hooks)
    THEN Some([hooks |-> [c \in DOMAIN HookEventsFields |-> <<>>],
               other |-> file.other])
    ELSE IF ~(DOMAIN HookEventsFields \subseteq DOMAIN Unwrap(file.hooks))
    THEN NoneOpt
    ELSE Some([hooks |-> [c \in DOMAIN HookEventsFields |-> Unwrap(file.hooks)[c]],
               other |-> file.other])

IsClaudeMinerConfig(config) ==
    \E i \in 1..Len(config.hooks) : ContainsStr(config.hooks[i].command, PIPE_PATH)

\* The add_hook closure of register_hooks.
add_hook(configs, event_name) ==
    SelectSeq(configs, LAMBDA config : ~IsClaudeMinerConfig(config))
    \o <<[matcher |-> "*",
          hooks |-> <<[hook_type |-> "command",
                       command |-> create_hook_command(event_name)]>>]>>

\* register_hooks: the file afterwards (the file as it was when
\* read_settings fails and nothing is written).
register_hooks(file) ==
    LET settings == read_settings(file)
    IN  IF ~IsSome(settings) THEN [ok |-> FALSE, file |-> file]
        ELSE [ok |-> TRUE,
              file |-> [hooks |-> Some([c \in DOMAIN HookEventsFields |->
                                          add_hook(Unwrap(settings).hooks[c],
                                                   HookEventsFields[c])]),
                        other |-> Unwrap(settings).other]]

InitHooks ==
    /\ Idle
    /\ \E file \in SettingsFiles :
         call = [fn |-> "hooks", done |-> FALSE, before |-> file,
                 ok |-> FALSE, after |-> file]

RegisterHooks ==
    /\ call.fn = "hooks"
    /\ ~call.done
    /\ LET r == register_hooks(call.before)
       IN  call' = [call EXCEPT !.done = TRUE, !.ok = r.ok, !.after = r.file]
    /\ UNCHANGED IdleVars

SpecHooks == InitHooks /\ [][RegisterHooks]_vars

\* The hooks of a file's category c that do not name the pipe path, each
\* with the matcher of its entry.
ForeignHooks(file, c) ==
    IF ~IsSome(file.hooks) \/ c \notin DOMAIN Unwrap(file.hooks) THEN {}
    ELSE LET configs == Unwrap(file.hooks)[c]
         IN  UNION {{<<configs[i].matcher, configs[i].hooks[j]>> :
                        j \in {k \in 1..Len(configs[i].hooks) :
                                 ~ContainsStr(configs[i].hooks[k].command,
                                              PIPE_PATH)}} :
                    i \in 1..Len(configs)}

FileCategories(file) ==
    IF IsSome(file.hooks) THEN DOMAIN Unwrap(file.hooks) ELSE {}

\* C40: in the settings register_hooks has written, every hook of the file
\* that does not name the pipe path is there, under its category and its
\* matcher, and the other top-level keys are as they were.
C40_ForeignHooksKept ==
    (call.fn = "hooks" /\ call.done /\ call.ok) =>
        /\ \A c \in FileCategories(call.before) :
              ForeignHooks(call.before, c) \subseteq ForeignHooks(call.after, c)
        /\ call.after.other = call.before.other

\* What register_hooks does keep: the other top-level keys, and in the
\* four categories of HookEvents the entries none of whose hooks names
\* the pipe path.
C40_KeptByRegister ==
    (call.fn = "hooks" /\ call.done /\ call.ok) =>
        /\ call.after.other = call.before.other
        /\ \A c \in DOMAIN HookEventsFields \cap FileCategories(call.before) :
              LET configs == Unwrap(call.before.hooks)[c]
                  written == Unwrap(call.after.hooks)[c]
              IN  \A i \in 1..Len(configs) :
                     ~IsClaudeMinerConfig(configs[i])
                     => \E k \in 1..Len(written) : written[k] = configs[i]

====
